---------------------------- MODULE Spec2Model ----------------------------
(***************************************************************************)
(* Model of faer's src/stats/meanvar.rs: col_mean, row_mean, col_varm and  *)
(* row_varm under NanHandling::{Propagate, Ignore}, with the contiguous    *)
(* SIMD kernels (real, Complex<Real>, packed c32/c64, scalar and vector    *)
(* backends) and the strided fallbacks.                                    *)
(*                                                                         *)
(* Abstractions.  Floating point values are exact rationals extended with  *)
(* NaN and +-Inf (no rounding), so equalities are equalities "up to        *)
(* rounding" of the program.  Integer widths are scaled: the 32 bit        *)
(* counter lane is U32Bits wide and usize is UsizeBits wide; the           *)
(* relations the code relies on (chunk_size = 2^w / 4, wrapping lane       *)
(* adds) are kept.                                                         *)
(*                                                                         *)
(* Specifications.  Spec: one call per behaviour, run to completion, over  *)
(* matrices with NaN masks.  ExampleSpec: the matrix of test_meanvar, its  *)
(* mean and then its variance.  ContractSpec: calls whose out and mean     *)
(* lengths need not match and whose element type need not be one of the    *)
(* dispatch.  StepSpec: two calls in one memory, one memory access per     *)
(* step.  RowSpec: one contiguous row of up to MaxRow entries, the ignore  *)
(* kernels one register per step; ChunkSpec: its rows of valid entries     *)
(* under weak fairness of the chunk loop.  PathSpec: the choice of the     *)
(* path on views of every stride.  ConvSpec: from_usize with rounding.     *)
(***************************************************************************)
EXTENDS Integers, Sequences, FiniteSets, TLC

VARIABLES pc, op, nan, E, S, offset, mat, mean, out, mem, th, tr

vars == <<pc, op, nan, E, S, offset, mat, mean, out, mem, th, tr>>

---------------------------------------------------------------------------
(* Bounds of the model.                                                    *)

\* longest reduced line (number of entries summed for one output position)
MaxLen == 4
\* largest number of output positions
MaxLines == 2
\* largest number of matrix entries
MaxCells == 4

(* Scaled machine widths.                                                  *)

\* bits of a u32 (f32's index lane, and the "n as u32" cast of from_usize)
U32Bits == 4
\* bits of usize (and of f64's u64 index lane)
UsizeBits == 6
\* elements per vector register of a vector backend (pulp::Scalar has 1)
VecLanes == 2

---------------------------------------------------------------------------
(* Extended rationals: [n, d] with d > 0 a reduced fraction, d = 0 and     *)
(* n = 0 NaN, d = 0 and n = +-1 the infinities.                            *)

NaN == [n |-> 0, d |-> 0]
Inf == [n |-> 1, d |-> 0]
NegInf == [n |-> -1, d |-> 0]
F(i) == [n |-> i, d |-> 1]

Abs(i) == IF i < 0 THEN -i ELSE i
Sign(i) == IF i > 0 THEN 1 ELSE IF i < 0 THEN -1 ELSE 0
Min(a, b) == IF a <= b THEN a ELSE b

RECURSIVE GCD(_, _)
GCD(a, b) == IF b = 0 THEN a ELSE GCD(b, a % b)

Norm(n, d) ==
    IF n = 0 THEN F(0)
    ELSE LET g == GCD(Abs(n), d) IN [n |-> n \div g, d |-> d \div g]

\* x.is_nan(), equivalently !(x == x) and !(x <= x)
is_nan(x) == x.d = 0 /\ x.n = 0
IsInf(x) == x.d = 0 /\ x.n # 0

f_add(a, b) ==
    IF is_nan(a) \/ is_nan(b) THEN NaN
    ELSE IF IsInf(a) THEN (IF IsInf(b) /\ b.n # a.n THEN NaN ELSE a)
    ELSE IF IsInf(b) THEN b
    ELSE Norm(a.n * b.d + b.n * a.d, a.d * b.d)

f_neg(a) == [n |-> -a.n, d |-> a.d]

f_sub(a, b) == f_add(a, f_neg(b))

f_mul(a, b) ==
    IF is_nan(a) \/ is_nan(b) THEN NaN
    ELSE IF IsInf(a) \/ IsInf(b)
         THEN (IF a.n = 0 \/ b.n = 0 THEN NaN
               ELSE [n |-> Sign(a.n) * Sign(b.n), d |-> 0])
    ELSE Norm(a.n * b.n, a.d * b.d)

\* 1 / a
f_inv(a) ==
    IF is_nan(a) THEN NaN
    ELSE IF IsInf(a) THEN F(0)
    ELSE IF a.n = 0 THEN Inf
    ELSE Norm(Sign(a.n) * a.d, Abs(a.n))

\* a * b + c
f_mul_add_e(a, b, c) == f_add(f_mul(a, b), c)

(* Complex values.                                                         *)
Cx(re, im) == [re |-> re, im |-> im]

c_add(a, b) == Cx(f_add(a.re, b.re), f_add(a.im, b.im))
c_sub(a, b) == Cx(f_sub(a.re, b.re), f_sub(a.im, b.im))
c_abs2(a) == f_add(f_mul(a.re, a.re), f_mul(a.im, a.im))
c_scale_real(a, r) == Cx(f_mul(a.re, r), f_mul(a.im, r))
c_is_nan(a) == is_nan(a.re) \/ is_nan(a.im)

(* The element kinds: "real" (f32, f64), "cplx" (Complex<Real>), and the   *)
(* packed "c32" and "c64".  The ComplexField operations, by kind.          *)
Kinds == {"real", "cplx", "c32", "c64"}
IsCplx(k) == k # "real"

faer_zero(k) == IF IsCplx(k) THEN Cx(F(0), F(0)) ELSE F(0)
faer_nan(k) == IF IsCplx(k) THEN Cx(NaN, NaN) ELSE NaN
faer_add(k, a, b) == IF IsCplx(k) THEN c_add(a, b) ELSE f_add(a, b)
faer_sub(k, a, b) == IF IsCplx(k) THEN c_sub(a, b) ELSE f_sub(a, b)
faer_abs2(k, a) == IF IsCplx(k) THEN c_abs2(a) ELSE f_mul(a, a)
faer_scale_real(k, a, r) == IF IsCplx(k) THEN c_scale_real(a, r) ELSE f_mul(a, r)
faer_is_nan(k, a) == IF IsCplx(k) THEN c_is_nan(a) ELSE is_nan(a)

Pow2(b) == 2 ^ b

\* from_usize: n as u32 as f64, plus (n as u64 - (n as u32 as u64)) as f64
from_usize(n) ==
    LET low == n % Pow2(U32Bits)
    IN f_add(F(low), F(n - low))

---------------------------------------------------------------------------
(* Element types (a 64 bit target): E::Index is u32 for the f32 based      *)
(* types and u64 for the f64 based ones.                                   *)

Types == {"f32", "f64", "Complex<f32>", "Complex<f64>", "c32", "c64"}

\* a ComplexField that is none of E::Real, Complex<E::Real>, c32, c64 (the
\* trait is open: a complex type implemented outside the crate)
OtherField == "OtherField"

AllTypes == Types \cup {OtherField}

Kind(Et) ==
    CASE Et \in {"f32", "f64"} -> "real"
      [] Et \in {"Complex<f32>", "Complex<f64>"} -> "cplx"
      [] Et = "c32" -> "c32"
      [] Et = "c64" -> "c64"
      [] Et = OtherField -> "other"

\* size_of::<E::Index>() * 8
IndexBits(Et) == IF Et \in {"f32", "Complex<f32>", "c32"} THEN U32Bits ELSE UsizeBits

usize_MAX == Pow2(UsizeBits) - 1

\* (1usize << bits) / 4 for every width: the shift wraps for a counter as
\* wide as usize; C27 must tell it from chunk_size
chunk_size_shift_only(Et) == (Pow2(IndexBits(Et)) % Pow2(UsizeBits)) \div 4

\* (if size_of::<E::Index>() < size_of::<usize>() { 1 << bits } else { usize::MAX }) / 4
chunk_size(Et) ==
    (IF IndexBits(Et) < UsizeBits THEN Pow2(IndexBits(Et)) ELSE usize_MAX) \div 4

\* usize addition (non_nan_count_total += ..., acc += ...)
usize_add(a, b) == (a + b) % Pow2(UsizeBits)

\* simd.index_add / u32s_add / u64s_add on one lane: wrapping
index_add(Et, a, b) == (a + b) % Pow2(IndexBits(Et))

---------------------------------------------------------------------------
(* Views.  A matrix view is its logical content plus its strides; a Col    *)
(* has nrows, a Row has ncols.                                             *)

MatView(data, m, n, rs, cs) ==
    [nrows |-> m, ncols |-> n, row_stride |-> rs, col_stride |-> cs, data |-> data]

ColView(data) == [nrows |-> Len(data), data |-> data]
RowView(data) == [ncols |-> Len(data), data |-> data]

\* transpose that exchanges the dimensions and the strides of the view but
\* leaves the content in place; C11 must tell it from transpose
transpose_in_place(v) ==
    [v EXCEPT !.nrows = v.ncols, !.ncols = v.nrows,
              !.row_stride = v.col_stride, !.col_stride = v.row_stride]

\* MatRef::transpose
transpose(v) ==
    [nrows |-> v.ncols, ncols |-> v.nrows,
     row_stride |-> v.col_stride, col_stride |-> v.row_stride,
     data |-> [j \in 1..v.ncols |-> [i \in 1..v.nrows |-> v.data[i][j]]]]

\* RowRef::transpose, RowMut::transpose_mut
row_transpose(r) == [nrows |-> r.ncols, data |-> r.data]

\* the Row a transposed Col view writes through to
col_transpose(c) == [ncols |-> c.nrows, data |-> c.data]

\* MatRef::reverse_cols
reverse_cols(v) ==
    [v EXCEPT !.col_stride = -v.col_stride,
              !.data = [i \in 1..v.nrows |->
                           [j \in 1..v.ncols |-> v.data[i][v.ncols + 1 - j]]]]

\* let mat = if mat.col_stride() >= 0 { mat } else { mat.reverse_cols() };
normalize_cols(v) == IF v.col_stride >= 0 THEN v ELSE reverse_cols(v)

---------------------------------------------------------------------------
(* Vector registers: sequences of lanes.                                   *)

Backends == {"Scalar", "Vec"}
Lanes(Sb) == IF Sb = "Scalar" THEN 1 ELSE VecLanes

splat(x, L) == [l \in 1..L |-> x]

\* simd.as_aligned_simd(row, offset): head, body, tail.  h is the number of
\* row entries in front of the first aligned register; a read is the lanes'
\* values with the mask of the lanes that lie inside the row.
as_aligned_simd(row, L, h, pad) ==
    [head |-> [mask |-> [l \in 1..L |-> l > L - h /\ l - (L - h) <= Len(row)],
               val |-> [l \in 1..L |->
                          IF l > L - h /\ l - (L - h) <= Len(row)
                          THEN row[l - (L - h)] ELSE pad]],
     body |-> [b \in 1..((Len(row) - Min(h, Len(row))) \div L) |->
                  [mask |-> splat(TRUE, L),
                   val |-> [l \in 1..L |-> row[Min(h, Len(row)) + (b - 1) * L + l]]]],
     tail |-> [mask |-> [l \in 1..L |-> l <= (Len(row) - Min(h, Len(row))) % L],
               val |-> [l \in 1..L |->
                          IF l <= (Len(row) - Min(h, Len(row))) % L
                          THEN row[Len(row) - ((Len(row) - Min(h, Len(row))) % L) + l]
                          ELSE pad]]]

\* val.read_or(simd.splat(or)), at lane l
read_lane(val, l, or) == IF val.mask[l] THEN val.val[l] ELSE or

\* offset.rotate_left_amount()
rotate_left_amount(L, h) == (L - h) % L

rotate_left(v, r) == [l \in 1..Len(v) |-> v[((l - 1 + r) % Len(v)) + 1]]

\* lane-wise simd.add; k is "real" or a complex kind
simd_add(k, a, b) == [l \in 1..Len(a) |-> faer_add(k, a[l], b[l])]

\* sum0 = add(sum0, sum1); sum2 = add(sum2, sum3); sum0 = add(sum0, sum2)
combine(k, s0, s1, s2, s3) == simd_add(k, simd_add(k, s0, s1), simd_add(k, s2, s3))

RECURSIVE SumFrom(_, _, _)
SumFrom(k, v, i) ==
    IF i > Len(v) THEN faer_zero(k) ELSE faer_add(k, v[i], SumFrom(k, v, i + 1))

\* simd.reduce_add
reduce_add(k, v) == SumFrom(k, v, 1)

\* lane s of a c32s / c64s read seen as f32s / f64s lanes (bytemuck::cast):
\* re and im of the elements alternate
flat_lane(val, s, or) ==
    IF s % 2 = 1 THEN read_lane(val, (s + 1) \div 2, or).re
    ELSE read_lane(val, s \div 2, or).im

\* lane s of simd.c32s_swap_re_im(val) seen as f32s lanes
swap_lane(val, s, or) == flat_lane(val, IF s % 2 = 1 THEN s + 1 ELSE s - 1, or)

\* simd.c32s_reduce_sum, on the flat lanes
RECURSIVE FlatSum(_, _)
FlatSum(f, s) ==
    IF s > Len(f) THEN F(0) ELSE f_add(f[s], FlatSum(f, s + 2))

cplx_reduce_sum(f) == Cx(FlatSum(f, 1), FlatSum(f, 2))

RECURSIVE CountFrom(_, _)
CountFrom(c, i) ==
    IF i > Len(c) THEN 0 ELSE usize_add(c[i], CountFrom(c, i + 1))

\* reduce: the lanes of a counter register added up as usize
reduce(c) == CountFrom(c, 1)

---------------------------------------------------------------------------
(* The contiguous ignore-NaN kernels.  A kernel is named by its element    *)
(* type Et, the backend Sb and the statistic stat ("mean" or "varm").      *)

Packed(Et) == Et \in {"c32", "c64"}

\* the lanes of an accumulator / counter register of the kernel
AccLanes(Et, Sb) == IF Packed(Et) /\ Sb # "Scalar" THEN 2 * Lanes(Sb) ELSE Lanes(Sb)

\* the kind of one accumulator lane
AccKind(Et, Sb, stat) ==
    IF stat = "varm" THEN "real"
    ELSE IF Packed(Et) /\ Sb # "Scalar" THEN "real"
    ELSE Kind(Et)

\* simd.index_select(mask, simd.index_add(count, splat(1)), count), one lane
count_lane(Et, count, is_not_nan) ==
    IF is_not_nan THEN index_add(Et, count, 1) ELSE count

\* process of col_mean_row_major_ignore_nan_real
process_mean_real(Et, acc, non_nan_count, val) ==
    [acc |-> [l \in 1..Len(acc) |->
                 IF ~is_nan(read_lane(val, l, NaN))
                 THEN f_add(acc[l], read_lane(val, l, NaN)) ELSE acc[l]],
     cnt |-> [l \in 1..Len(acc) |->
                 count_lane(Et, non_nan_count[l], ~is_nan(read_lane(val, l, NaN)))]]

\* simd.mul_add_e(diff, diff, acc) with diff = val - mean, one lane
sq_dev_add(v, m, acc) == f_mul_add_e(f_sub(v, m), f_sub(v, m), acc)

\* process of col_varm_row_major_ignore_nan_real
process_varm_real(Et, acc, m, non_nan_count, val) ==
    [acc |-> [l \in 1..Len(acc) |->
                 IF ~is_nan(read_lane(val, l, NaN))
                 THEN sq_dev_add(read_lane(val, l, NaN), m, acc[l]) ELSE acc[l]],
     cnt |-> [l \in 1..Len(acc) |->
                 count_lane(Et, non_nan_count[l], ~is_nan(read_lane(val, l, NaN)))]]

\* the nested selects of the complex kernels, one lane: im_is_not_nan is the
\* outer mask, re_is_not_nan the inner one
select2(im_is_not_nan, re_is_not_nan, yes, no) ==
    IF im_is_not_nan THEN (IF re_is_not_nan THEN yes ELSE no) ELSE no

\* process of col_mean_row_major_ignore_nan_cplx, one lane of the sum
mean_cplx_lane(acc, v) ==
    Cx(select2(~is_nan(v.im), ~is_nan(v.re), f_add(acc.re, v.re), acc.re),
       select2(~is_nan(v.im), ~is_nan(v.re), f_add(acc.im, v.im), acc.im))

\* one lane of the counter of the complex kernels
count_cplx_lane(Et, count, v) ==
    select2(~is_nan(v.im), ~is_nan(v.re), index_add(Et, count, 1), count)

process_mean_cplx(Et, acc, non_nan_count, val) ==
    [acc |-> [l \in 1..Len(acc) |->
                 mean_cplx_lane(acc[l], read_lane(val, l, Cx(NaN, NaN)))],
     cnt |-> [l \in 1..Len(acc) |->
                 count_cplx_lane(Et, non_nan_count[l], read_lane(val, l, Cx(NaN, NaN)))]]

\* process of col_varm_row_major_ignore_nan_cplx, one lane of the sum
varm_cplx_lane(acc, m, v) ==
    select2(~is_nan(v.im), ~is_nan(v.re), f_add(c_abs2(c_sub(v, m)), acc), acc)

process_varm_cplx(Et, acc, m, non_nan_count, val) ==
    [acc |-> [l \in 1..Len(acc) |->
                 varm_cplx_lane(acc[l], m, read_lane(val, l, Cx(NaN, NaN)))],
     cnt |-> [l \in 1..Len(acc) |->
                 count_cplx_lane(Et, non_nan_count[l], read_lane(val, l, Cx(NaN, NaN)))]]

\* "is_nan as u32 * 2" in the scalar branch of the packed kernels
scalar_hits(isnan) == (IF isnan THEN 1 ELSE 0) * 2

\* the scalar branch of process of col_mean_row_major_ignore_nan_c32 / _c64
mean_packed_scalar(Et, acc, non_nan_count, v) ==
    [acc |-> <<c_add(acc, IF c_is_nan(v) THEN Cx(F(0), F(0)) ELSE v)>>,
     cnt |-> <<index_add(Et, non_nan_count, scalar_hits(c_is_nan(v)))>>]

\* the vector branch: simd.m32s_and(f32s_equal(val, val), f32s_equal(swap, swap))
packed_is_not_nan(x, swapped) == ~is_nan(x) /\ ~is_nan(swapped)

\* process of col_mean_row_major_ignore_nan_c32 / _c64
process_mean_packed(Et, Sb, acc, non_nan_count, val) ==
    IF Sb = "Scalar"
    THEN mean_packed_scalar(Et, acc[1], non_nan_count[1], read_lane(val, 1, Cx(NaN, NaN)))
    ELSE [acc |-> [s \in 1..Len(acc) |->
                      IF packed_is_not_nan(flat_lane(val, s, Cx(NaN, NaN)),
                                           swap_lane(val, s, Cx(NaN, NaN)))
                      THEN f_add(acc[s], flat_lane(val, s, Cx(NaN, NaN))) ELSE acc[s]],
          cnt |-> [s \in 1..Len(acc) |->
                      count_lane(Et, non_nan_count[s],
                                 packed_is_not_nan(flat_lane(val, s, Cx(NaN, NaN)),
                                                   swap_lane(val, s, Cx(NaN, NaN))))]]

\* the scalar branch of process of col_varm_row_major_ignore_nan_c32 / _c64
varm_packed_scalar(Et, acc, m, non_nan_count, v) ==
    [acc |-> <<f_add(acc, c_abs2(c_sub(IF c_is_nan(v) THEN m ELSE v, m)))>>,
     cnt |-> <<index_add(Et, non_nan_count, scalar_hits(c_is_nan(v)))>>]

\* lane s of the mean register seen as f32s lanes
flat_mean(m, s) == IF s % 2 = 1 THEN m.re ELSE m.im

\* process of col_varm_row_major_ignore_nan_c32 / _c64
process_varm_packed(Et, Sb, acc, m, non_nan_count, val) ==
    IF Sb = "Scalar"
    THEN varm_packed_scalar(Et, acc[1], m, non_nan_count[1],
                            read_lane(val, 1, Cx(NaN, NaN)))
    ELSE [acc |-> [s \in 1..Len(acc) |->
                      IF packed_is_not_nan(flat_lane(val, s, Cx(NaN, NaN)),
                                           swap_lane(val, s, Cx(NaN, NaN)))
                      THEN sq_dev_add(flat_lane(val, s, Cx(NaN, NaN)), flat_mean(m, s),
                                      acc[s])
                      ELSE acc[s]],
          cnt |-> [s \in 1..Len(acc) |->
                      count_lane(Et, non_nan_count[s],
                                 packed_is_not_nan(flat_lane(val, s, Cx(NaN, NaN)),
                                                   swap_lane(val, s, Cx(NaN, NaN))))]]

\* the process function of the kernel the element type is routed to
process(Et, Sb, stat, acc, m, non_nan_count, val) ==
    CASE Kind(Et) = "real" /\ stat = "mean" -> process_mean_real(Et, acc, non_nan_count, val)
      [] Kind(Et) = "real" /\ stat = "varm" -> process_varm_real(Et, acc, m, non_nan_count, val)
      [] Kind(Et) = "cplx" /\ stat = "mean" -> process_mean_cplx(Et, acc, non_nan_count, val)
      [] Kind(Et) = "cplx" /\ stat = "varm" -> process_varm_cplx(Et, acc, m, non_nan_count, val)
      [] Packed(Et) /\ stat = "mean" -> process_mean_packed(Et, Sb, acc, non_nan_count, val)
      [] Packed(Et) /\ stat = "varm" -> process_varm_packed(Et, Sb, acc, m, non_nan_count, val)

---------------------------------------------------------------------------
(* One row of a contiguous ignore-NaN kernel.  K = [Et, Sb, stat, m] names *)
(* the kernel and carries the row's mean (col_mean.read(i), unused by the  *)
(* mean kernels).  The traversal state is the four partial sums, the four  *)
(* counter registers and non_nan_count_total.                              *)

\* (sumJ, non_nan_countJ) = process(..) for the four registers of a group
with_group(st, p0, p1, p2, p3) ==
    [sum0 |-> p0.acc, sum1 |-> p1.acc, sum2 |-> p2.acc, sum3 |-> p3.acc,
     non_nan_count0 |-> p0.cnt, non_nan_count1 |-> p1.cnt,
     non_nan_count2 |-> p2.cnt, non_nan_count3 |-> p3.cnt,
     non_nan_count_total |-> st.non_nan_count_total]

\* for [x0, x1, x2, x3] in body4[start..start + len]: one group
group_step(K, st, x0, x1, x2, x3) ==
    with_group(st,
               process(K.Et, K.Sb, K.stat, st.sum0, K.m, st.non_nan_count0, x0),
               process(K.Et, K.Sb, K.stat, st.sum1, K.m, st.non_nan_count1, x1),
               process(K.Et, K.Sb, K.stat, st.sum2, K.m, st.non_nan_count2, x2),
               process(K.Et, K.Sb, K.stat, st.sum3, K.m, st.non_nan_count3, x3))

RECURSIVE group_loop(_, _, _, _, _)
group_loop(K, st, body, g, last) ==
    IF g > last THEN st
    ELSE group_loop(K,
                    group_step(K, st, body[4 * g - 3], body[4 * g - 2],
                               body[4 * g - 1], body[4 * g]),
                    body, g + 1, last)

\* lane-wise simd.index_add of two counter registers
index_add_v(Et, a, b) == [l \in 1..Len(a) |-> index_add(Et, a[l], b[l])]

\* the end of a chunk: the four counters are added up, reduced into the
\* total and reset
flush(K, st) ==
    [sum0 |-> st.sum0, sum1 |-> st.sum1, sum2 |-> st.sum2, sum3 |-> st.sum3,
     non_nan_count0 |-> splat(0, Len(st.non_nan_count0)),
     non_nan_count1 |-> splat(0, Len(st.non_nan_count0)),
     non_nan_count2 |-> splat(0, Len(st.non_nan_count0)),
     non_nan_count3 |-> splat(0, Len(st.non_nan_count0)),
     non_nan_count_total |->
         usize_add(st.non_nan_count_total,
                   reduce(index_add_v(K.Et,
                              index_add_v(K.Et, st.non_nan_count0, st.non_nan_count1),
                              index_add_v(K.Et, st.non_nan_count2, st.non_nan_count3))))]

\* while start < body4.len() { ... start += len; }
RECURSIVE chunk_loop(_, _, _, _, _)
chunk_loop(K, st, body, nbody4, start) ==
    IF ~(start < nbody4) THEN st
    ELSE chunk_loop(K,
                    flush(K, group_loop(K, st, body, start + 1,
                                        start + Min(nbody4 - start, chunk_size(K.Et)))),
                    body, nbody4, start + Min(nbody4 - start, chunk_size(K.Et)))

\* (sum0, non_nan_count0) = process(.., x0)
with_sum0(st, p) == [st EXCEPT !.sum0 = p.acc, !.non_nan_count0 = p.cnt]

\* for x0 in body1 { (sum0, non_nan_count0) = process(.., x0) }
RECURSIVE body1_loop(_, _, _, _)
body1_loop(K, st, body, b) ==
    IF b > Len(body) THEN st
    ELSE body1_loop(K,
                    with_sum0(st, process(K.Et, K.Sb, K.stat, st.sum0, K.m,
                                          st.non_nan_count0, body[b])),
                    body, b + 1)

\* the state after the head: sum0 holds the head, its counter is reduced
\* into the total and reset
after_head(K, ph) ==
    [sum0 |-> ph.acc,
     sum1 |-> splat(faer_zero(AccKind(K.Et, K.Sb, K.stat)), Len(ph.acc)),
     sum2 |-> splat(faer_zero(AccKind(K.Et, K.Sb, K.stat)), Len(ph.acc)),
     sum3 |-> splat(faer_zero(AccKind(K.Et, K.Sb, K.stat)), Len(ph.acc)),
     non_nan_count0 |-> splat(0, Len(ph.acc)),
     non_nan_count1 |-> splat(0, Len(ph.acc)),
     non_nan_count2 |-> splat(0, Len(ph.acc)),
     non_nan_count3 |-> splat(0, Len(ph.acc)),
     non_nan_count_total |-> usize_add(0, reduce(ph.cnt))]

\* the sum of the row out of the combined register s
row_sum(K, s, amount) ==
    IF Packed(K.Et) /\ K.Sb # "Scalar"
    THEN IF K.stat = "mean"
         THEN cplx_reduce_sum(rotate_left(s, 2 * amount))
         ELSE reduce_add("real", rotate_left(s, amount))
    ELSE reduce_add(AccKind(K.Et, K.Sb, K.stat), rotate_left(s, amount))

\* the tail, the last reduction of the counter and the sum of the row
after_tail(K, h, st2, pt) ==
    [sum |-> row_sum(K, combine(AccKind(K.Et, K.Sb, K.stat),
                                pt.acc, st2.sum1, st2.sum2, st2.sum3),
                     rotate_left_amount(Lanes(K.Sb), h)),
     non_nan_count_total |-> usize_add(st2.non_nan_count_total, reduce(pt.cnt))]

ignore_row_tail(K, h, tail, st2) ==
    after_tail(K, h, st2,
               process(K.Et, K.Sb, K.stat, st2.sum0, K.m, st2.non_nan_count0, tail))

ignore_row_parts(K, h, parts) ==
    ignore_row_tail(K, h, parts.tail,
        body1_loop(K,
            chunk_loop(K,
                after_head(K, process(K.Et, K.Sb, K.stat,
                                      splat(faer_zero(AccKind(K.Et, K.Sb, K.stat)),
                                            AccLanes(K.Et, K.Sb)),
                                      K.m, splat(0, AccLanes(K.Et, K.Sb)), parts.head)),
                parts.body, Len(parts.body) \div 4, 0),
            parts.body, 4 * (Len(parts.body) \div 4) + 1))

\* the row's raw result: [sum, non_nan_count_total]
ignore_row(K, row, h) ==
    ignore_row_parts(K, h, as_aligned_simd(row, Lanes(K.Sb), h, faer_zero(Kind(K.Et))))

\* non_nan_count_total, halved by the packed kernels
final_count(Et, total) == IF Packed(Et) THEN total \div 2 ELSE total

\* the value a mean kernel writes to out[i]
mean_finish(Et, r) ==
    faer_scale_real(Kind(Et), r.sum,
                    f_inv(from_usize(final_count(Et, r.non_nan_count_total))))

\* the value a variance kernel writes to out[i]
varm_finish(Et, r) ==
    IF final_count(Et, r.non_nan_count_total) = 0 THEN NaN
    ELSE IF final_count(Et, r.non_nan_count_total) = 1 THEN F(0)
    ELSE f_mul(r.sum, f_inv(from_usize(final_count(Et, r.non_nan_count_total) - 1)))

\* a kernel whose accumulators and counters are set up once, before the
\* loop over the rows: a row continues the sums of the row before it; C29
\* must tell it from col_mean_row_major_ignore_nan
col_mean_row_major_ignore_nan_carried(Et, Sb, h, m) ==
    [i \in 1..m.nrows |->
        mean_finish(Et, ignore_row([Et |-> Et, Sb |-> Sb, stat |-> "mean",
                                    m |-> faer_zero(Kind(Et))],
                                   IF i = 1 THEN m.data[i]
                                   ELSE m.data[i - 1] \o m.data[i], h))]

\* col_mean_row_major_ignore_nan_{real, cplx, c32, c64}: the data written to out
col_mean_row_major_ignore_nan(Et, Sb, h, m) ==
    [i \in 1..m.nrows |->
        mean_finish(Et, ignore_row([Et |-> Et, Sb |-> Sb, stat |-> "mean",
                                    m |-> faer_zero(Kind(Et))], m.data[i], h))]

\* col_varm_row_major_ignore_nan_{real, cplx, c32, c64}
col_varm_row_major_ignore_nan(Et, Sb, h, m, col_mean) ==
    [i \in 1..m.nrows |->
        varm_finish(Et, ignore_row([Et |-> Et, Sb |-> Sb, stat |-> "varm",
                                    m |-> col_mean.data[i]], m.data[i], h))]

---------------------------------------------------------------------------
(* The contiguous propagate kernels.                                       *)

\* val.read_or(simd.splat(or)), the whole register
read_or(val, or) == [l \in 1..Len(val.val) |-> read_lane(val, l, or)]

\* col_mean_propagate::col_mean_row_major, one row: the sum of the row
RECURSIVE mean_group_loop(_, _, _, _, _)
mean_group_loop(k, st, body, g, last) ==
    IF g > last THEN st
    ELSE mean_group_loop(k,
            [sum0 |-> simd_add(k, st.sum0, body[4 * g - 3].val),
             sum1 |-> simd_add(k, st.sum1, body[4 * g - 2].val),
             sum2 |-> simd_add(k, st.sum2, body[4 * g - 1].val),
             sum3 |-> simd_add(k, st.sum3, body[4 * g].val)],
            body, g + 1, last)

\* the body1 loop left out; C7 must tell it from mean_body1_loop
mean_body1_skipped(k, st, body, b) == st

RECURSIVE mean_body1_loop(_, _, _, _)
mean_body1_loop(k, st, body, b) ==
    IF b > Len(body) THEN st
    ELSE mean_body1_loop(k, [st EXCEPT !.sum0 = simd_add(k, @, body[b].val)],
                         body, b + 1)

\* the tail, the combination of the four sums, the rotation and reduce_add
mean_after_tail(k, L, h, tail, st2) ==
    reduce_add(k, rotate_left(combine(k, simd_add(k, st2.sum0,
                                                  read_or(tail, faer_zero(k))),
                                      st2.sum1, st2.sum2, st2.sum3),
                              rotate_left_amount(L, h)))

propagate_mean_parts(k, L, h, parts) ==
    mean_after_tail(k, L, h, parts.tail,
        mean_body1_loop(k,
            mean_group_loop(k,
                [sum0 |-> read_or(parts.head, faer_zero(k)),
                 sum1 |-> splat(faer_zero(k), L),
                 sum2 |-> splat(faer_zero(k), L),
                 sum3 |-> splat(faer_zero(k), L)],
                parts.body, 1, Len(parts.body) \div 4),
            parts.body, 4 * (Len(parts.body) \div 4) + 1))

propagate_mean_row(Et, Sb, row, h) ==
    propagate_mean_parts(Kind(Et), Lanes(Sb), h,
                         as_aligned_simd(row, Lanes(Sb), h, faer_zero(Kind(Et))))

col_mean_row_major(Et, Sb, h, m) ==
    [i \in 1..m.nrows |->
        faer_scale_real(Kind(Et), propagate_mean_row(Et, Sb, m.data[i], h),
                        f_inv(from_usize(m.ncols)))]

\* lane s of diff = simd.sub(val.read_or(mean), mean) seen as f32s / f64s lanes
flat_diff(val, m, s) == f_sub(flat_lane(val, s, m), flat_mean(m, s))

\* process of col_varm_propagate::col_varm_row_major
process_varm_propagate(Et, Sb, acc, m, val) ==
    IF Packed(Et)
    THEN IF Sb = "Scalar"
         THEN <<f_add(c_abs2(c_sub(read_lane(val, 1, m), m)), acc[1])>>
         ELSE [s \in 1..Len(acc) |->
                  f_mul_add_e(flat_diff(val, m, s), flat_diff(val, m, s), acc[s])]
    ELSE [l \in 1..Len(acc) |->
             f_add(faer_abs2(Kind(Et), faer_sub(Kind(Et), read_lane(val, l, m), m)),
                   acc[l])]

RECURSIVE varm_group_loop(_, _, _, _, _, _, _)
varm_group_loop(Et, Sb, m, st, body, g, last) ==
    IF g > last THEN st
    ELSE varm_group_loop(Et, Sb, m,
            [sum0 |-> process_varm_propagate(Et, Sb, st.sum0, m, body[4 * g - 3]),
             sum1 |-> process_varm_propagate(Et, Sb, st.sum1, m, body[4 * g - 2]),
             sum2 |-> process_varm_propagate(Et, Sb, st.sum2, m, body[4 * g - 1]),
             sum3 |-> process_varm_propagate(Et, Sb, st.sum3, m, body[4 * g])],
            body, g + 1, last)

RECURSIVE varm_body1_loop(_, _, _, _, _, _)
varm_body1_loop(Et, Sb, m, st, body, b) ==
    IF b > Len(body) THEN st
    ELSE varm_body1_loop(Et, Sb, m,
            [st EXCEPT !.sum0 = process_varm_propagate(Et, Sb, @, m, body[b])],
            body, b + 1)

\* the tail, the combination of the four sums, the rotation and reduce_add
varm_after_tail(Et, Sb, m, h, tail, st2) ==
    reduce_add("real",
               rotate_left(combine("real",
                                   process_varm_propagate(Et, Sb, st2.sum0, m, tail),
                                   st2.sum1, st2.sum2, st2.sum3),
                           rotate_left_amount(Lanes(Sb), h)))

propagate_varm_parts(Et, Sb, m, h, parts) ==
    varm_after_tail(Et, Sb, m, h, parts.tail,
        varm_body1_loop(Et, Sb, m,
            varm_group_loop(Et, Sb, m,
                [sum0 |-> process_varm_propagate(Et, Sb, splat(F(0), AccLanes(Et, Sb)),
                                                 m, parts.head),
                 sum1 |-> splat(F(0), AccLanes(Et, Sb)),
                 sum2 |-> splat(F(0), AccLanes(Et, Sb)),
                 sum3 |-> splat(F(0), AccLanes(Et, Sb))],
                parts.body, 1, Len(parts.body) \div 4),
            parts.body, 4 * (Len(parts.body) \div 4) + 1))

propagate_varm_row(Et, Sb, row, m, h) ==
    propagate_varm_parts(Et, Sb, m, h,
                         as_aligned_simd(row, Lanes(Sb), h, faer_zero(Kind(Et))))

col_varm_row_major(Et, Sb, h, m, col_mean) ==
    [i \in 1..m.nrows |->
        f_mul(propagate_varm_row(Et, Sb, m.data[i], col_mean.data[i], h),
              f_inv(from_usize(m.ncols - 1)))]

---------------------------------------------------------------------------
(* The four internal column reductions: zero-length return, column         *)
(* reversal, contiguous kernel or strided fallback.  Each gives the Col    *)
(* view out as it is when the function returns.                            *)

\* fill that leaves out as it was; C6 must tell it from fill
fill_skipped(o, x) == o

\* out.fill(x)
fill(o, x) == [o EXCEPT !.data = [i \in 1..o.nrows |-> x]]

\* out.write(i, res[i]) for i in 0..m
write_rows(o, m, res) ==
    [o EXCEPT !.data = [i \in 1..o.nrows |-> IF i <= m THEN res[i] ELSE o.data[i]]]

\* out.fill_zero(); for j in 0..n { out += mat.col(j) }, at position i
RECURSIVE strided_mean_acc(_, _, _, _)
strided_mean_acc(k, row, j, acc) ==
    IF j > Len(row) THEN acc
    ELSE strided_mean_acc(k, row, j + 1, faer_add(k, acc, row[j]))

col_mean_propagate(Et, Sb, h, o, m0) ==
    IF m0.ncols = 0 THEN fill(o, faer_nan(Kind(Et)))
    ELSE LET m == normalize_cols(m0)
         IN IF m.col_stride = 1
            THEN write_rows(o, m.nrows, col_mean_row_major(Et, Sb, h, m))
            ELSE LET one_n == f_inv(from_usize(m.ncols))
                 IN [o EXCEPT !.data = [i \in 1..o.nrows |->
                        faer_scale_real(Kind(Et),
                            strided_mean_acc(Kind(Et), m.data[i], 1, faer_zero(Kind(Et))),
                            one_n)]]

\* the strided loop of col_varm_propagate, at position i
RECURSIVE strided_varm_acc(_, _, _, _, _)
strided_varm_acc(k, row, mu, j, acc) ==
    IF j > Len(row) THEN acc
    ELSE strided_varm_acc(k, row, mu, j + 1,
                          f_add(acc, faer_abs2(k, faer_sub(k, row[j], mu))))

\* col_varm_propagate without its ncols == 1 return; C5 must tell it from
\* col_varm_propagate
col_varm_propagate_no_single(Et, Sb, h, o, m0, col_mean) ==
    IF m0.ncols = 0 THEN fill(o, NaN)
    ELSE IF normalize_cols(m0).col_stride = 1
    THEN write_rows(o, m0.nrows,
                    col_varm_row_major(Et, Sb, h, normalize_cols(m0), col_mean))
    ELSE [o EXCEPT !.data = [i \in 1..o.nrows |->
            f_mul(strided_varm_acc(Kind(Et), m0.data[i], col_mean.data[i], 1, F(0)),
                  f_inv(from_usize(m0.ncols - 1)))]]

col_varm_propagate(Et, Sb, h, o, m0, col_mean) ==
    IF m0.ncols = 0 THEN fill(o, NaN)
    ELSE IF m0.ncols = 1 THEN fill(o, F(0))
    ELSE LET m == normalize_cols(m0)
         IN IF m.col_stride = 1
            THEN write_rows(o, m.nrows, col_varm_row_major(Et, Sb, h, m, col_mean))
            ELSE LET one_n1 == f_inv(from_usize(m.ncols - 1))
                 IN [o EXCEPT !.data = [i \in 1..o.nrows |->
                        f_mul(strided_varm_acc(Kind(Et), m.data[i], col_mean.data[i],
                                               1, F(0)),
                              one_n1)]]

\* the strided loop of col_mean_ignore, at position i: [acc, valid_count]
RECURSIVE strided_mean_ignore_acc(_, _, _, _)
strided_mean_ignore_acc(k, row, j, st) ==
    IF j > Len(row) THEN st
    ELSE LET elem == row[j]
             isnan == faer_is_nan(k, elem)
         IN strided_mean_ignore_acc(k, row, j + 1,
                [valid_count |-> usize_add(st.valid_count, IF isnan THEN 0 ELSE 1),
                 acc |-> IF isnan THEN st.acc ELSE faer_add(k, st.acc, elem)])

col_mean_ignore(Et, Sb, h, o, m0) ==
    IF m0.ncols = 0 THEN fill(o, faer_nan(Kind(Et)))
    ELSE LET m == normalize_cols(m0)
         IN IF m.col_stride = 1
            THEN write_rows(o, m.nrows, col_mean_row_major_ignore_nan(Et, Sb, h, m))
            ELSE write_rows(o, m.nrows,
                    [i \in 1..m.nrows |->
                        LET st == strided_mean_ignore_acc(Kind(Et), m.data[i], 1,
                                      [valid_count |-> 0, acc |-> faer_zero(Kind(Et))])
                        IN faer_scale_real(Kind(Et), st.acc,
                                           f_inv(from_usize(st.valid_count)))])

\* the strided loop of col_varm_ignore, at position i: [acc, valid_count]
RECURSIVE strided_varm_ignore_acc(_, _, _, _, _)
strided_varm_ignore_acc(k, row, mu, j, st) ==
    IF j > Len(row) THEN st
    ELSE LET elem == row[j]
             diff == faer_sub(k, elem, mu)
             isnan == faer_is_nan(k, elem)
         IN strided_varm_ignore_acc(k, row, mu, j + 1,
                [valid_count |-> usize_add(st.valid_count, IF isnan THEN 0 ELSE 1),
                 acc |-> IF isnan THEN st.acc ELSE f_add(st.acc, faer_abs2(k, diff))])

col_varm_ignore(Et, Sb, h, o, m0, col_mean) ==
    IF m0.ncols = 0 THEN fill(o, NaN)
    ELSE LET m == normalize_cols(m0)
         IN IF m.col_stride = 1
            THEN write_rows(o, m.nrows,
                            col_varm_row_major_ignore_nan(Et, Sb, h, m, col_mean))
            ELSE write_rows(o, m.nrows,
                    [i \in 1..m.nrows |->
                        LET st == strided_varm_ignore_acc(Kind(Et), m.data[i],
                                      col_mean.data[i], 1,
                                      [valid_count |-> 0, acc |-> F(0)])
                            non_nan_count == st.valid_count
                        IN IF non_nan_count = 0 THEN NaN
                           ELSE IF non_nan_count = 1 THEN F(0)
                           ELSE f_mul(st.acc, f_inv(from_usize(non_nan_count - 1)))])

\* the row variants: the column variant on transposed views
row_mean_propagate(Et, Sb, h, o, m) ==
    col_transpose(col_mean_propagate(Et, Sb, h, row_transpose(o), transpose(m)))

row_varm_propagate(Et, Sb, h, o, m, row_mean) ==
    col_transpose(col_varm_propagate(Et, Sb, h, row_transpose(o), transpose(m),
                                     row_transpose(row_mean)))

\* row_mean_ignore on the matrix as given, not transposed; C10 must tell it
\* from row_mean_ignore
row_mean_ignore_untransposed(Et, Sb, h, o, m) ==
    col_transpose(col_mean_ignore(Et, Sb, h, row_transpose(o), m))

row_mean_ignore(Et, Sb, h, o, m) ==
    col_transpose(col_mean_ignore(Et, Sb, h, row_transpose(o), transpose(m)))

row_varm_ignore(Et, Sb, h, o, m, row_mean) ==
    col_transpose(col_varm_ignore(Et, Sb, h, row_transpose(o), transpose(m),
                                  row_transpose(row_mean)))

(* The public entry points, after their assertion.                         *)
col_mean(Et, Sb, h, o, m, nanp) ==
    IF nanp = "Propagate" THEN col_mean_propagate(Et, Sb, h, o, m)
    ELSE col_mean_ignore(Et, Sb, h, o, m)

row_mean(Et, Sb, h, o, m, nanp) ==
    IF nanp = "Propagate" THEN row_mean_propagate(Et, Sb, h, o, m)
    ELSE row_mean_ignore(Et, Sb, h, o, m)

col_varm(Et, Sb, h, o, m, col_mean_v, nanp) ==
    IF nanp = "Propagate" THEN col_varm_propagate(Et, Sb, h, o, m, col_mean_v)
    ELSE col_varm_ignore(Et, Sb, h, o, m, col_mean_v)

row_varm(Et, Sb, h, o, m, row_mean_v, nanp) ==
    IF nanp = "Propagate" THEN row_varm_propagate(Et, Sb, h, o, m, row_mean_v)
    ELSE row_varm_ignore(Et, Sb, h, o, m, row_mean_v)

(* Where a call panics: the assertion of its entry point, and the else    *)
(* branch of the coe::is_same chain of the contiguous ignore-NaN path.     *)

\* an assertion that lets a shorter out through; C15 must tell it from
\* col_mean_asserts
col_mean_asserts_at_most(o, m) == o.nrows <= m.nrows

\* assert!(all(out.nrows() == mat.nrows()))
col_mean_asserts(o, m) == o.nrows = m.nrows

\* assert!(all(out.ncols() == mat.ncols()))
row_mean_asserts(o, m) == o.ncols = m.ncols

\* assert!(all(out.nrows() == mat.nrows(), col_mean.nrows() == mat.nrows()))
col_varm_asserts(o, m, col_mean_v) == o.nrows = m.nrows /\ col_mean_v.nrows = m.nrows

\* assert!(all(out.ncols() == mat.ncols(), row_mean.ncols() == mat.ncols()))
row_varm_asserts(o, m, row_mean_v) == o.ncols = m.ncols /\ row_mean_v.ncols = m.ncols

\* E::Real of the element type
RealOf(Et) ==
    IF Et \in {"f32", "Complex<f32>", "c32"} THEN "f32" ELSE "f64"

\* Complex<R>
ComplexOf(R) == IF R = "f32" THEN "Complex<f32>" ELSE "Complex<f64>"

\* coe::is_same::<A, B>()
is_same(A, B) == A = B

\* the four tests of the chain of col_mean_ignore / col_varm_ignore, in
\* the order of the code
dispatch_tests(Et) ==
    <<is_same(Et, "c32"), is_same(Et, "c64"), is_same(Et, RealOf(Et)),
      is_same(Et, ComplexOf(RealOf(Et)))>>

\* a chain that sends every type whose real part is a real type to the real
\* kernel; C28 must tell it from ignore_kernel
ignore_kernel_by_real_part(Et) ==
    IF dispatch_tests(Et)[1] THEN "c32"
    ELSE IF dispatch_tests(Et)[2] THEN "c64"
    ELSE IF is_same(RealOf(Et), RealOf(Et)) THEN "real"
    ELSE IF dispatch_tests(Et)[4] THEN "cplx"
    ELSE "panic"

\* the kernel the chain calls: that of the first test that holds
ignore_kernel(Et) ==
    IF dispatch_tests(Et)[1] THEN "c32"
    ELSE IF dispatch_tests(Et)[2] THEN "c64"
    ELSE IF dispatch_tests(Et)[3] THEN "real"
    ELSE IF dispatch_tests(Et)[4] THEN "cplx"
    ELSE "panic"

\* the coe::is_same chain ends in panic!()
dispatch_panics(Et) == Kind(Et) \notin Kinds

\* the chain reached on the strided path too; C18 must tell it from
\* ignore_panics
ignore_panics_any_layout(Et, m0) == m0.ncols # 0 /\ dispatch_panics(Et)

\* col_mean_ignore and col_varm_ignore reach the chain when ncols != 0 and
\* the column stride, after reverse_cols, is 1
ignore_panics(Et, m0) ==
    m0.ncols # 0 /\ normalize_cols(m0).col_stride = 1 /\ dispatch_panics(Et)

col_mean_panics(Et, o, m, nanp) ==
    ~col_mean_asserts(o, m) \/ (nanp = "Ignore" /\ ignore_panics(Et, m))

row_mean_panics(Et, o, m, nanp) ==
    ~row_mean_asserts(o, m) \/ (nanp = "Ignore" /\ ignore_panics(Et, transpose(m)))

col_varm_panics(Et, o, m, col_mean_v, nanp) ==
    ~col_varm_asserts(o, m, col_mean_v) \/ (nanp = "Ignore" /\ ignore_panics(Et, m))

row_varm_panics(Et, o, m, row_mean_v, nanp) ==
    \/ ~row_varm_asserts(o, m, row_mean_v)
    \/ (nanp = "Ignore" /\ ignore_panics(Et, transpose(m)))

---------------------------------------------------------------------------
(* The calls.  The element type and the SIMD backend are fixed when the    *)
(* program starts; a call draws its arguments, runs to completion and      *)
(* leaves its arguments and the output vector in the state.                *)

NanHandling == {"Propagate", "Ignore"}

\* the finite entry at line i, position j: a power of two by position, its
\* sign by line
FiniteElem(k, i, j) ==
    IF k = "real" THEN F((IF i % 2 = 1 THEN 1 ELSE -1) * Pow2(j - 1))
    ELSE Cx(F((IF i % 2 = 1 THEN 1 ELSE -1) * Pow2(j - 1)), F(j))

\* the NaN entry at line i, position j: for a complex type the NaN sits in
\* the real or in the imaginary component
NanElem(k, i, j) ==
    IF k = "real" THEN NaN
    ELSE IF (i + j) % 2 = 0 THEN Cx(NaN, F(j)) ELSE Cx(F(j), NaN)

\* the matrix data with NaN at the positions of mask
Entries(k, mask) ==
    [i \in DOMAIN mask |->
        [j \in DOMAIN mask[i] |->
            IF mask[i][j] THEN NanElem(k, i, j) ELSE FiniteElem(k, i, j)]]

\* the supplied means: a finite value, NaN, an infinity
MeanVals(k) ==
    IF k = "real" THEN <<F(1), NaN, Inf>>
    ELSE <<Cx(F(1), F(1)), Cx(NaN, F(1)), Cx(Inf, F(0))>>

\* the mean vector that holds MeanVals(k)[s] at line 1 and the following
\* values at the following lines
Means(k, s, lines) == [i \in 1..lines |-> MeanVals(k)[((s + i - 2) % 3) + 1]]

\* what a position of out holds before the call
Stale(k) == IF IsCplx(k) THEN Cx(F(7), F(7)) ELSE F(7)

\* the stride along the reduced dimension: contiguous, reversed, strided
Strides == {1, -1, 2}

\* backend and alignment of the first row (entries before the first aligned
\* register)
SimdConfigs == {c \in Backends \X (0..(VecLanes - 1)) : c[2] < Lanes(c[1])}

\* <<output positions, length of the reduced lines>>
Shapes == {sh \in (0..MaxLines) \X (0..MaxLen) : sh[1] * sh[2] <= MaxCells}

\* the NaN masks of the matrices with `lines` rows of `len` entries
Masks(lines, len) == [1..lines -> [1..len -> BOOLEAN]]

Init ==
    /\ pc = "idle"
    /\ op = "none"
    /\ nan = "Propagate"
    /\ E \in Types
    /\ S \in Backends
    /\ offset = 0
    /\ mat = MatView(<<>>, 0, 0, 0, 1)
    /\ mean = ColView(<<>>)
    /\ out = ColView(<<>>)
    /\ mem = <<>>
    /\ th = <<>>
    /\ tr = <<>>

ColMean ==
    /\ pc = "idle"
    /\ \E h \in 0..(Lanes(S) - 1), nanp \in NanHandling, sh \in Shapes, cs \in Strides :
         \E mask \in Masks(sh[1], sh[2]) :
            LET m == MatView(Entries(Kind(E), mask), sh[1], sh[2], sh[2] * Abs(cs), cs)
                o == ColView(splat(Stale(Kind(E)), sh[1]))
            IN /\ op' = "col_mean"
               /\ nan' = nanp /\ offset' = h
               /\ mat' = m
               /\ mean' = ColView(<<>>)
               /\ IF o.nrows = m.nrows
                  THEN out' = col_mean(E, S, h, o, m, nanp) /\ pc' = "done"
                  ELSE out' = o /\ pc' = "panic"
    /\ UNCHANGED <<E, S, mem, th, tr>>

RowMean ==
    /\ pc = "idle"
    /\ \E h \in 0..(Lanes(S) - 1), nanp \in NanHandling, sh \in Shapes, rs \in Strides :
         \E mask \in Masks(sh[1], sh[2]) :
            LET m == transpose(MatView(Entries(Kind(E), mask), sh[1], sh[2],
                                       sh[2] * Abs(rs), rs))
                o == RowView(splat(Stale(Kind(E)), sh[1]))
            IN /\ op' = "row_mean"
               /\ nan' = nanp /\ offset' = h
               /\ mat' = m
               /\ mean' = RowView(<<>>)
               /\ IF o.ncols = m.ncols
                  THEN out' = row_mean(E, S, h, o, m, nanp) /\ pc' = "done"
                  ELSE out' = o /\ pc' = "panic"
    /\ UNCHANGED <<E, S, mem, th, tr>>

ColVarm ==
    /\ pc = "idle"
    /\ \E h \in 0..(Lanes(S) - 1), nanp \in NanHandling, sh \in Shapes, cs \in Strides :
         \E mask \in Masks(sh[1], sh[2]), s \in 1..3 :
            LET m == MatView(Entries(Kind(E), mask), sh[1], sh[2], sh[2] * Abs(cs), cs)
                o == ColView(splat(Stale("real"), sh[1]))
                cm == ColView(Means(Kind(E), s, sh[1]))
            IN /\ op' = "col_varm"
               /\ nan' = nanp /\ offset' = h
               /\ mat' = m
               /\ mean' = cm
               /\ IF o.nrows = m.nrows /\ cm.nrows = m.nrows
                  THEN out' = col_varm(E, S, h, o, m, cm, nanp) /\ pc' = "done"
                  ELSE out' = o /\ pc' = "panic"
    /\ UNCHANGED <<E, S, mem, th, tr>>

RowVarm ==
    /\ pc = "idle"
    /\ \E h \in 0..(Lanes(S) - 1), nanp \in NanHandling, sh \in Shapes, rs \in Strides :
         \E mask \in Masks(sh[1], sh[2]), s \in 1..3 :
            LET m == transpose(MatView(Entries(Kind(E), mask), sh[1], sh[2],
                                       sh[2] * Abs(rs), rs))
                o == RowView(splat(Stale("real"), sh[1]))
                rm == RowView(Means(Kind(E), s, sh[1]))
            IN /\ op' = "row_varm"
               /\ nan' = nanp /\ offset' = h
               /\ mat' = m
               /\ mean' = rm
               /\ IF o.ncols = m.ncols /\ rm.ncols = m.ncols
                  THEN out' = row_varm(E, S, h, o, m, rm, nanp) /\ pc' = "done"
                  ELSE out' = o /\ pc' = "panic"
    /\ UNCHANGED <<E, S, mem, th, tr>>

Next == ColMean \/ RowMean \/ ColVarm \/ RowVarm

Spec == Init /\ [][Next]_vars

---------------------------------------------------------------------------
(* The statistics the specification states, in the arithmetic of the       *)
(* model, and the parts of a finished call they are stated about.          *)

\* the reduced lines of the call: the rows of mat for a column reduction,
\* its columns for a row reduction
CallLines ==
    IF op \in {"col_mean", "col_varm"} THEN mat.data ELSE transpose(mat).data

MeanCall == op \in {"col_mean", "row_mean"}
VarmCall == op \in {"col_varm", "row_varm"}
Done == pc = "done"

\* the entries of a line that are not NaN
NonNan(k, row) == SelectSeq(row, LAMBDA x : ~faer_is_nan(k, x))

AllNan(k, row) == \A j \in 1..Len(row) : faer_is_nan(k, row[j])
NoNan(k, row) == \A j \in 1..Len(row) : ~faer_is_nan(k, row[j])

\* the sum of the entries of s from position j on
RECURSIVE Sigma(_, _, _)
Sigma(k, s, j) ==
    IF j > Len(s) THEN faer_zero(k) ELSE faer_add(k, s[j], Sigma(k, s, j + 1))

\* the sum of |x - mu|^2 over the entries of s from position j on
RECURSIVE SigmaSqDev(_, _, _, _)
SigmaSqDev(k, s, mu, j) ==
    IF j > Len(s) THEN F(0)
    ELSE f_add(faer_abs2(k, faer_sub(k, s[j], mu)), SigmaSqDev(k, s, mu, j + 1))

\* sum / count
MeanOf(k, s) == faer_scale_real(k, Sigma(k, s, 1), f_inv(F(Len(s))))

\* sum of squared deviations / (count - 1)
VarmOf(k, s, mu) == f_mul(SigmaSqDev(k, s, mu, 1), f_inv(F(Len(s) - 1)))

---------------------------------------------------------------------------
(* C1 - C10.                                                               *)

\* C1: under Ignore, a line with k >= 1 non-NaN entries has as its mean the
\* sum of its non-NaN entries divided by k.
C1_IgnoreMeanOfNonNan ==
    (Done /\ MeanCall /\ nan = "Ignore") =>
        \A i \in 1..Len(CallLines) :
            Len(NonNan(Kind(E), CallLines[i])) >= 1 =>
                out.data[i] = MeanOf(Kind(E), NonNan(Kind(E), CallLines[i]))

\* C2: under Ignore, a line with k >= 2 non-NaN entries has as its variance
\* the sum of |x - mean|^2 over its non-NaN entries divided by k - 1.
C2_IgnoreVarmOfNonNan ==
    (Done /\ VarmCall /\ nan = "Ignore") =>
        \A i \in 1..Len(CallLines) :
            Len(NonNan(Kind(E), CallLines[i])) >= 2 =>
                out.data[i] = VarmOf(Kind(E), NonNan(Kind(E), CallLines[i]),
                                     mean.data[i])

\* C3: under Ignore, a line with exactly one non-NaN entry v has mean v and
\* variance exactly 0, whatever mean is supplied.
C3_IgnoreSingleEntry ==
    (Done /\ nan = "Ignore") =>
        \A i \in 1..Len(CallLines) :
            Len(NonNan(Kind(E), CallLines[i])) = 1 =>
                /\ MeanCall => out.data[i] = NonNan(Kind(E), CallLines[i])[1]
                /\ VarmCall => out.data[i] = F(0)

\* C4: under Ignore, a line of one or more entries that are all NaN has a
\* NaN mean and a NaN variance.
C4_IgnoreAllNanLine ==
    (Done /\ nan = "Ignore") =>
        \A i \in 1..Len(CallLines) :
            (Len(CallLines[i]) >= 1 /\ AllNan(Kind(E), CallLines[i])) =>
                faer_is_nan(IF MeanCall THEN Kind(E) ELSE "real", out.data[i])

\* C5 as stated: under Propagate, a line of one or more entries that are
\* all NaN has a NaN mean and a NaN variance, for every length >= 1.
C5_PropagateAllNanLine_AsStated ==
    (Done /\ nan = "Propagate") =>
        \A i \in 1..Len(CallLines) :
            (Len(CallLines[i]) >= 1 /\ AllNan(Kind(E), CallLines[i])) =>
                faer_is_nan(IF MeanCall THEN Kind(E) ELSE "real", out.data[i])

\* C5, amended: under Propagate, a line of one or more entries that are all
\* NaN has a NaN mean for every length >= 1; its variance is NaN for every
\* length >= 2 and exactly 0 at length 1.
C5_PropagateAllNanLine ==
    (Done /\ nan = "Propagate") =>
        \A i \in 1..Len(CallLines) :
            (Len(CallLines[i]) >= 1 /\ AllNan(Kind(E), CallLines[i])) =>
                /\ MeanCall => faer_is_nan(Kind(E), out.data[i])
                /\ (VarmCall /\ Len(CallLines[i]) >= 2) => is_nan(out.data[i])
                /\ (VarmCall /\ Len(CallLines[i]) = 1) => out.data[i] = F(0)

\* C5 happens: a Propagate variance of an all-NaN line of two or more
\* entries has been written, and is NaN
C5_Witness ==
    /\ Done /\ nan = "Propagate" /\ VarmCall
    /\ Len(CallLines) >= 1
    /\ Len(CallLines[1]) >= 2 /\ AllNan(Kind(E), CallLines[1])
    /\ is_nan(out.data[1])

\* C6: when the reduced dimension has length 0, every position of out is
\* NaN, under both policies, for the mean and for the variance.
C6_EmptyLineIsNan ==
    Done =>
        /\ Len(out.data) = Len(CallLines)
        /\ \A i \in 1..Len(CallLines) :
              Len(CallLines[i]) = 0 =>
                  out.data[i] = (IF MeanCall THEN faer_nan(Kind(E)) ELSE NaN)

\* C6 happens: a row variance under Ignore over a reduced dimension of
\* length 0 has filled two positions with NaN
C6_Witness ==
    /\ Done /\ nan = "Ignore" /\ op = "row_varm"
    /\ mat.nrows = 0 /\ mat.ncols = 2
    /\ out.data = <<NaN, NaN>>

\* C7: under Propagate, the mean of a line of n >= 1 entries is the sum of
\* all its entries divided by n, and a line that holds a NaN has a NaN mean.
C7_PropagateMean ==
    (Done /\ MeanCall /\ nan = "Propagate") =>
        \A i \in 1..Len(CallLines) :
            Len(CallLines[i]) >= 1 =>
                /\ out.data[i] = MeanOf(Kind(E), CallLines[i])
                /\ ~NoNan(Kind(E), CallLines[i]) => faer_is_nan(Kind(E), out.data[i])

\* C7 happens: the Propagate mean of a line of three or more entries, none
\* NaN, has been written by a contiguous vector kernel and is their mean
C7_Witness ==
    /\ Done /\ op = "col_mean" /\ nan = "Propagate"
    /\ S = "Vec" /\ offset = 1 /\ mat.col_stride = 1
    /\ mat.nrows = 1 /\ mat.ncols >= 3 /\ NoNan(Kind(E), mat.data[1])
    /\ out.data[1] = MeanOf(Kind(E), mat.data[1])
    /\ ~faer_is_nan(Kind(E), out.data[1])

\* C8: under Propagate, the variance of a line of length 1 is exactly 0,
\* whatever the entry and the mean, and the variance of a line of n >= 2
\* entries is the sum of |x - mean|^2 over its entries divided by n - 1.
C8_PropagateVarm ==
    (Done /\ VarmCall /\ nan = "Propagate") =>
        \A i \in 1..Len(CallLines) :
            /\ Len(CallLines[i]) = 1 => out.data[i] = F(0)
            /\ Len(CallLines[i]) >= 2 =>
                   out.data[i] = VarmOf(Kind(E), CallLines[i], mean.data[i])

\* out as it is handed to the call
FreshOut ==
    IF op \in {"col_mean", "col_varm"}
    THEN ColView(splat(Stale(IF MeanCall THEN Kind(E) ELSE "real"), Len(CallLines)))
    ELSE RowView(splat(Stale(IF MeanCall THEN Kind(E) ELSE "real"), Len(CallLines)))

\* what the call of the state writes under the policy nanp
Rerun(nanp) ==
    CASE op = "col_mean" -> col_mean(E, S, offset, FreshOut, mat, nanp)
      [] op = "row_mean" -> row_mean(E, S, offset, FreshOut, mat, nanp)
      [] op = "col_varm" -> col_varm(E, S, offset, FreshOut, mat, mean, nanp)
      [] op = "row_varm" -> row_varm(E, S, offset, FreshOut, mat, mean, nanp)

\* C9: on a matrix without NaN, Ignore and Propagate give the same mean and
\* the same variance, for every element kind, layout and backend.
C9_PoliciesAgreeWithoutNan ==
    (Done /\ \A i \in 1..Len(CallLines) : NoNan(Kind(E), CallLines[i])) =>
        out = Rerun(IF nan = "Ignore" THEN "Propagate" ELSE "Ignore")

\* C10: row_mean(M, P) is col_mean(transpose(M), P), and row_varm(M, mean, P)
\* is col_varm(transpose(M), mean, P).
C10_RowIsColOfTranspose ==
    (Done /\ op \in {"row_mean", "row_varm"}) =>
        out.data =
            (IF op = "row_mean"
             THEN col_mean(E, S, offset, row_transpose(FreshOut), transpose(mat), nan)
             ELSE col_varm(E, S, offset, row_transpose(FreshOut), transpose(mat),
                           row_transpose(mean), nan)).data

\* C10 happens: a row mean under Ignore of a matrix with two rows and two
\* columns has been written, its two positions differ, and it is the column
\* mean of the transposed matrix
C10_Witness ==
    /\ Done /\ op = "row_mean" /\ nan = "Ignore"
    /\ mat.nrows = 2 /\ mat.ncols = 2
    /\ out.data[1] # out.data[2]
    /\ out.data = col_mean(E, S, offset, row_transpose(FreshOut), transpose(mat),
                           nan).data

---------------------------------------------------------------------------
(* The matrix of tests::test_meanvar (the real parts for a real type): a   *)
(* mean is computed, then the variance about a mean vector.                *)

ExampleElem(k, re, im) == IF k = "real" THEN re ELSE Cx(re, im)

\* [[c32(1.2, 2.3), c32(3.4, 1.2)], [c32(1.7, -1.0), c32(-3.8, 1.95)]]
ExampleData(k) ==
    << <<ExampleElem(k, Norm(12, 10), Norm(23, 10)),
         ExampleElem(k, Norm(34, 10), Norm(12, 10))>>,
       <<ExampleElem(k, Norm(17, 10), F(-1)),
         ExampleElem(k, Norm(-38, 10), Norm(195, 100))>> >>

\* <<row stride, column stride>> of the 2x2 matrix: row major, column
\* major, and each with the unit stride negated
Layouts == {<<2, 1>>, <<1, 2>>, <<2, -1>>, <<-1, 2>>}

ExampleColMean ==
    /\ pc = "idle"
    /\ \E h \in 0..(Lanes(S) - 1), nanp \in NanHandling, ly \in Layouts :
          LET m == MatView(ExampleData(Kind(E)), 2, 2, ly[1], ly[2])
              o == ColView(splat(Stale(Kind(E)), m.nrows))
          IN /\ op' = "col_mean"
             /\ nan' = nanp /\ offset' = h
             /\ mat' = m
             /\ mean' = ColView(<<>>)
             /\ out' = col_mean(E, S, h, o, m, nanp)
             /\ pc' = "done"
    /\ UNCHANGED <<E, S, mem, th, tr>>

ExampleRowMean ==
    /\ pc = "idle"
    /\ \E h \in 0..(Lanes(S) - 1), nanp \in NanHandling, ly \in Layouts :
          LET m == MatView(ExampleData(Kind(E)), 2, 2, ly[1], ly[2])
              o == RowView(splat(Stale(Kind(E)), m.ncols))
          IN /\ op' = "row_mean"
             /\ nan' = nanp /\ offset' = h
             /\ mat' = m
             /\ mean' = RowView(<<>>)
             /\ out' = row_mean(E, S, h, o, m, nanp)
             /\ pc' = "done"
    /\ UNCHANGED <<E, S, mem, th, tr>>

\* col_varm of the same matrix, about the means col_mean wrote or about the
\* means row_mean writes
ExampleColVarm ==
    /\ pc = "done" /\ op = "col_mean"
    /\ \E nanp \in NanHandling,
          cm \in {out,
                  row_transpose(row_mean(E, S, offset,
                                         RowView(splat(Stale(Kind(E)), mat.ncols)),
                                         mat, nan))} :
          /\ op' = "col_varm"
          /\ nan' = nanp
          /\ mean' = cm
          /\ out' = col_varm(E, S, offset, ColView(splat(Stale("real"), mat.nrows)),
                             mat, cm, nanp)
          /\ pc' = "done"
    /\ UNCHANGED <<E, S, offset, mat, mem, th, tr>>

\* row_varm of the same matrix, about the means row_mean wrote or about the
\* means col_mean writes
ExampleRowVarm ==
    /\ pc = "done" /\ op = "row_mean"
    /\ \E nanp \in NanHandling,
          rm \in {out,
                  col_transpose(col_mean(E, S, offset,
                                         ColView(splat(Stale(Kind(E)), mat.nrows)),
                                         mat, nan))} :
          /\ op' = "row_varm"
          /\ nan' = nanp
          /\ mean' = rm
          /\ out' = row_varm(E, S, offset, RowView(splat(Stale("real"), mat.ncols)),
                             mat, rm, nanp)
          /\ pc' = "done"
    /\ UNCHANGED <<E, S, offset, mat, mem, th, tr>>

ExampleNext == ExampleColMean \/ ExampleRowMean \/ ExampleColVarm \/ ExampleRowVarm

ExampleSpec == Init /\ [][ExampleNext]_vars

---------------------------------------------------------------------------
(* Calls with any argument lengths and any ComplexField: out and the mean  *)
(* vector need not match the matrix, and the element type need not be one  *)
(* the dispatch knows.  The matrices hold no NaN.                          *)

\* the mask without NaN
NoNanMask(lines, len) == [i \in 1..lines |-> [j \in 1..len |-> FALSE]]

\* the lengths of out and of the mean vector
Lengths == 0..MaxLines

ContractInit ==
    /\ pc = "idle"
    /\ op = "none"
    /\ nan = "Propagate"
    /\ E \in AllTypes
    /\ S \in Backends
    /\ offset = 0
    /\ mat = MatView(<<>>, 0, 0, 0, 1)
    /\ mean = ColView(<<>>)
    /\ out = ColView(<<>>)
    /\ mem = <<>>
    /\ th = <<>>
    /\ tr = <<>>

ColMeanCall ==
    /\ pc = "idle"
    /\ \E h \in 0..(Lanes(S) - 1), nanp \in NanHandling, sh \in Shapes, cs \in Strides,
          olen \in Lengths :
            LET m == MatView(Entries(Kind(E), NoNanMask(sh[1], sh[2])), sh[1], sh[2],
                             sh[2] * Abs(cs), cs)
                o == ColView(splat(Stale(Kind(E)), olen))
            IN /\ op' = "col_mean"
               /\ nan' = nanp /\ offset' = h
               /\ mat' = m
               /\ mean' = ColView(<<>>)
               /\ IF col_mean_panics(E, o, m, nanp)
                  THEN out' = o /\ pc' = "panic"
                  ELSE out' = col_mean(E, S, h, o, m, nanp) /\ pc' = "done"
    /\ UNCHANGED <<E, S, mem, th, tr>>

RowMeanCall ==
    /\ pc = "idle"
    /\ \E h \in 0..(Lanes(S) - 1), nanp \in NanHandling, sh \in Shapes, rs \in Strides,
          olen \in Lengths :
            LET m == transpose(MatView(Entries(Kind(E), NoNanMask(sh[1], sh[2])),
                                       sh[1], sh[2], sh[2] * Abs(rs), rs))
                o == RowView(splat(Stale(Kind(E)), olen))
            IN /\ op' = "row_mean"
               /\ nan' = nanp /\ offset' = h
               /\ mat' = m
               /\ mean' = RowView(<<>>)
               /\ IF row_mean_panics(E, o, m, nanp)
                  THEN out' = o /\ pc' = "panic"
                  ELSE out' = row_mean(E, S, h, o, m, nanp) /\ pc' = "done"
    /\ UNCHANGED <<E, S, mem, th, tr>>

ColVarmCall ==
    /\ pc = "idle"
    /\ \E h \in 0..(Lanes(S) - 1), nanp \in NanHandling, sh \in Shapes, cs \in Strides,
          olen \in Lengths, mlen \in Lengths :
            LET m == MatView(Entries(Kind(E), NoNanMask(sh[1], sh[2])), sh[1], sh[2],
                             sh[2] * Abs(cs), cs)
                o == ColView(splat(Stale("real"), olen))
                cm == ColView(Means(Kind(E), 1, mlen))
            IN /\ op' = "col_varm"
               /\ nan' = nanp /\ offset' = h
               /\ mat' = m
               /\ mean' = cm
               /\ IF col_varm_panics(E, o, m, cm, nanp)
                  THEN out' = o /\ pc' = "panic"
                  ELSE out' = col_varm(E, S, h, o, m, cm, nanp) /\ pc' = "done"
    /\ UNCHANGED <<E, S, mem, th, tr>>

RowVarmCall ==
    /\ pc = "idle"
    /\ \E h \in 0..(Lanes(S) - 1), nanp \in NanHandling, sh \in Shapes, rs \in Strides,
          olen \in Lengths, mlen \in Lengths :
            LET m == transpose(MatView(Entries(Kind(E), NoNanMask(sh[1], sh[2])),
                                       sh[1], sh[2], sh[2] * Abs(rs), rs))
                o == RowView(splat(Stale("real"), olen))
                rm == RowView(Means(Kind(E), 1, mlen))
            IN /\ op' = "row_varm"
               /\ nan' = nanp /\ offset' = h
               /\ mat' = m
               /\ mean' = rm
               /\ IF row_varm_panics(E, o, m, rm, nanp)
                  THEN out' = o /\ pc' = "panic"
                  ELSE out' = row_varm(E, S, h, o, m, rm, nanp) /\ pc' = "done"
    /\ UNCHANGED <<E, S, mem, th, tr>>

ContractNext == ColMeanCall \/ RowMeanCall \/ ColVarmCall \/ RowVarmCall

ContractSpec == ContractInit /\ [][ContractNext]_vars

---------------------------------------------------------------------------
(* Two calls, each one memory access at a time.  mem is the memory of the  *)
(* process; call t is given views into its own buffers, which no other     *)
(* call is given.  th[t] holds the locals of call t and, in writes and     *)
(* last, how often and by which kind of store (a partial sum or a final    *)
(* value) each position of its out has been written.                       *)

Threads == {1, 2}

\* the buffers of call t: four matrix entries, two means, two outputs
MatBuf(t) == (t - 1) * 10
MeanBuf(t) == MatBuf(t) + 4
OutBuf(t) == MatBuf(t) + 6

\* one counter buffer for every call, as a static scratch buffer would be;
\* C20 must tell it from CountBuf
CountBufStatic(t) == 8

\* let mut valid_count = vec![0usize; m]: the allocation of call t
CountBuf(t) == MatBuf(t) + 8

Addrs == 0..19

StepTypes == {"f64", "c32"}

Ops == {"col_mean", "row_mean", "col_varm", "row_varm"}
StatOf(o) == IF o \in {"col_mean", "row_mean"} THEN "mean" ELSE "varm"

\* the element kind of out: E for a mean, E::Real for a variance
OutKind(Et, stat) == IF stat = "mean" THEN Kind(Et) ELSE "real"

\* memory before the calls: the matrix of call t has a NaN in its second
\* entry, the mean vector of call t is Means(_, t, 2)
StepMem(Et) ==
    [a \in Addrs |->
        IF a % 10 < 4
        THEN (IF a % 10 = 1 THEN NanElem(Kind(Et), (a \div 10) + 1, 2)
              ELSE FiniteElem(Kind(Et), (a \div 10) + 1, (a % 10) + 1))
        ELSE IF a % 10 < 6 THEN Means(Kind(Et), (a \div 10) + 1, 2)[(a % 10) - 3]
        ELSE IF a % 10 < 8 THEN Stale("real")
        ELSE 0]

\* the matrix views a call is given: 2x2 row major, 2x2 with reversed
\* columns, 2x1, 2x0; off is the entry of the buffer the view starts at
StepViews ==
    { [nrows |-> 2, ncols |-> 2, rs |-> 2, cs |-> 1, off |-> 0],
      [nrows |-> 2, ncols |-> 2, rs |-> 2, cs |-> -1, off |-> 1],
      [nrows |-> 2, ncols |-> 1, rs |-> 1, cs |-> 1, off |-> 0],
      [nrows |-> 2, ncols |-> 0, rs |-> 1, cs |-> 1, off |-> 0] }

\* mat.transpose() on a view with a pointer
view_transpose(v) ==
    [v EXCEPT !.nrows = v.ncols, !.ncols = v.nrows, !.rs = v.cs, !.cs = v.rs]

\* mat.reverse_cols() on a view with a pointer
view_reverse_cols(v) ==
    [v EXCEPT !.ptr = v.ptr + (v.ncols - 1) * v.cs, !.cs = -v.cs]

\* the address of mat.read_unchecked(i, j)
addr(v, i, j) == v.ptr + i * v.rs + j * v.cs

\* the entries a view shows
logical(v) ==
    [i \in 1..v.nrows |-> [j \in 1..v.ncols |-> mem[addr(v, i - 1, j - 1)]]]

\* simd.align_offset_ptr(mat.as_ptr(), mat.ncols()): the entries before the
\* first aligned register
align_offset(Sb, ptr) == (Lanes(Sb) - (ptr % Lanes(Sb))) % Lanes(Sb)

\* the strided fallback on every layout; C17 must tell it from select_path
select_path_never_kernel(stat, nanp, v) ==
    IF v.ncols = 0 THEN "fill_nan"
    ELSE IF stat = "varm" /\ nanp = "Propagate" /\ v.ncols = 1 THEN "fill_zero"
    ELSE "strided"

\* the stride tested as it is given, without the reversal of a negative
\* one; C24 must tell it from select_path
select_path_no_reverse(stat, nanp, v) ==
    IF v.ncols = 0 THEN "fill_nan"
    ELSE IF stat = "varm" /\ nanp = "Propagate" /\ v.ncols = 1 THEN "fill_zero"
    ELSE IF v.cs = 1 THEN "kernel"
    ELSE "strided"

\* the path of col_{mean, varm}_{propagate, ignore} on the view v
select_path(stat, nanp, v) ==
    IF v.ncols = 0 THEN "fill_nan"
    ELSE IF stat = "varm" /\ nanp = "Propagate" /\ v.ncols = 1 THEN "fill_zero"
    ELSE IF Abs(v.cs) = 1 THEN "kernel"
    ELSE "strided"

\* the mean of position 0 for every position; C19 must tell it from mean_at
mean_at_first(t, i) == mem[MeanBuf(t)]

\* col_mean.read(i), col_mean.read_unchecked(i)
mean_at(t, i) == mem[MeanBuf(t) + i]

\* one row of a contiguous kernel: what it writes to out from the entries
\* of the row and the mean of the row
kernel_row(Et, Sb, h, stat, nanp, row, mu) ==
    CASE stat = "mean" /\ nanp = "Propagate" ->
            col_mean_row_major(Et, Sb, h, MatView(<<row>>, 1, Len(row), Len(row), 1))[1]
      [] stat = "mean" /\ nanp = "Ignore" ->
            col_mean_row_major_ignore_nan(Et, Sb, h,
                MatView(<<row>>, 1, Len(row), Len(row), 1))[1]
      [] stat = "varm" /\ nanp = "Propagate" ->
            col_varm_row_major(Et, Sb, h, MatView(<<row>>, 1, Len(row), Len(row), 1),
                               ColView(<<mu>>))[1]
      [] stat = "varm" /\ nanp = "Ignore" ->
            col_varm_row_major_ignore_nan(Et, Sb, h,
                MatView(<<row>>, 1, Len(row), Len(row), 1), ColView(<<mu>>))[1]

\* the strided loops: what is stored to out[i] for the entry elem
acc_value(Et, stat, nanp, acc, elem, mu) ==
    IF nanp = "Ignore" /\ faer_is_nan(Kind(Et), elem) THEN acc
    ELSE IF stat = "mean" THEN faer_add(Kind(Et), acc, elem)
    ELSE f_add(acc, faer_abs2(Kind(Et), faer_sub(Kind(Et), elem, mu)))

\* the sum stored back as it is; C16 must tell it from final_value
final_value_unscaled(Et, stat, nanp, n, cnt, acc) == acc

\* the strided paths: what the last loop stores to out[i]
final_value(Et, stat, nanp, n, cnt, acc) ==
    IF nanp = "Propagate"
    THEN faer_scale_real(OutKind(Et, stat), acc,
                         f_inv(from_usize(IF stat = "mean" THEN n ELSE n - 1)))
    ELSE IF stat = "mean"
    THEN faer_scale_real(Kind(Et), acc, f_inv(from_usize(cnt)))
    ELSE IF cnt = 0 THEN NaN
    ELSE IF cnt = 1 THEN F(0)
    ELSE f_mul(acc, f_inv(from_usize(cnt - 1)))

IdleThread ==
    [pc |-> "idle", op |-> "none", nan |-> "Propagate", stat |-> "mean",
     path |-> "none", m |-> [ptr |-> 0, nrows |-> 0, ncols |-> 0, rs |-> 0, cs |-> 1],
     h |-> 0, i |-> 0, j |-> 0, elem |-> F(0), mu |-> F(0), acc |-> F(0), cnt |-> 0,
     regs |-> <<>>, fillval |-> F(0), writes |-> <<>>, last |-> <<>>,
     arg |-> [mat |-> MatView(<<>>, 0, 0, 0, 1), mean |-> <<>>]]

StepInit ==
    /\ pc = "idle"
    /\ op = "none"
    /\ nan = "Propagate"
    /\ E \in StepTypes
    /\ S \in Backends
    /\ offset = 0
    /\ mat = MatView(<<>>, 0, 0, 0, 1)
    /\ mean = ColView(<<>>)
    /\ out = ColView(<<>>)
    /\ mem = StepMem(E)
    /\ th = [t \in Threads |-> IdleThread]
    /\ tr = <<>>

\* the entry point up to the choice of the path: the assertion holds, a row
\* variant transposes its views, a negative column stride is reversed
Start(t) ==
    /\ th[t].pc = "idle"
    /\ \E o \in Ops, nanp \in NanHandling, v \in StepViews :
          LET m0 == [ptr |-> MatBuf(t) + v.off, nrows |-> v.nrows, ncols |-> v.ncols,
                     rs |-> v.rs, cs |-> v.cs]
              m1 == IF o \in {"row_mean", "row_varm"} THEN view_transpose(m0) ELSE m0
              m == IF m1.cs >= 0 THEN m1 ELSE view_reverse_cols(m1)
              stat == StatOf(o)
              path == select_path(stat, nanp, m1)
          IN /\ th' = [th EXCEPT ![t] = [IdleThread EXCEPT
                    !.pc = IF m.nrows = 0 THEN "done"
                           ELSE IF path = "kernel"
                           THEN (IF stat = "varm" THEN "read_mean" ELSE "kernel_load")
                           ELSE "fill",
                    !.op = o, !.nan = nanp, !.stat = stat, !.path = path,
                    !.m = m, !.h = align_offset(S, m.ptr),
                    !.fillval = IF path = "fill_nan" THEN faer_nan(OutKind(E, stat))
                                ELSE faer_zero(OutKind(E, stat)),
                    !.writes = [k \in 1..m.nrows |-> 0],
                    !.last = [k \in 1..m.nrows |-> "none"],
                    !.arg = [mat |-> MatView(logical(m0), m0.nrows, m0.ncols, m0.rs, m0.cs),
                             mean |-> [k \in 1..m.nrows |-> mem[MeanBuf(t) + k - 1]]]]]
             /\ mem' = [a \in Addrs |->
                          IF a \in OutBuf(t)..(OutBuf(t) + 1) THEN Stale(OutKind(E, stat))
                          ELSE IF /\ path = "strided" /\ nanp = "Ignore"
                                  /\ a \in CountBuf(t)..(CountBuf(t) + m.nrows - 1)
                          THEN 0
                          ELSE mem[a]]
    /\ UNCHANGED <<pc, op, nan, E, S, offset, mat, mean, out, tr>>

\* out.fill(nan), out.fill_zero(): one position
Fill(t) ==
    /\ th[t].pc = "fill"
    /\ mem' = [mem EXCEPT ![OutBuf(t) + th[t].i] = th[t].fillval]
    /\ th' = [th EXCEPT ![t] = [@ EXCEPT
           !.writes[th[t].i + 1] = @ + 1,
           !.last[th[t].i + 1] = IF th[t].path = "strided" THEN "partial" ELSE "final",
           !.i = IF th[t].i + 1 < th[t].m.nrows THEN th[t].i + 1 ELSE 0,
           !.pc = IF th[t].i + 1 < th[t].m.nrows THEN "fill"
                  ELSE IF th[t].path = "strided" THEN "read_elem"
                  ELSE "done"]]
    /\ UNCHANGED <<pc, op, nan, E, S, offset, mat, mean, out, tr>>

\* let mean = col_mean.read(i)
ReadMean(t) ==
    /\ th[t].pc = "read_mean"
    /\ th' = [th EXCEPT ![t] = [@ EXCEPT
           !.mu = mean_at(t, th[t].i),
           !.pc = IF th[t].path = "kernel" THEN "kernel_load" ELSE "read_acc"]]
    /\ UNCHANGED <<pc, op, nan, E, S, offset, mat, mean, out, mem, tr>>

\* a contiguous kernel loads entry j of row i
KernelLoad(t) ==
    /\ th[t].pc = "kernel_load"
    /\ th' = [th EXCEPT ![t] = [@ EXCEPT
           !.regs = Append(@, mem[addr(th[t].m, th[t].i, th[t].j)]),
           !.j = @ + 1,
           !.pc = IF th[t].j + 1 < th[t].m.ncols THEN "kernel_load" ELSE "kernel_write"]]
    /\ UNCHANGED <<pc, op, nan, E, S, offset, mat, mean, out, mem, tr>>

\* out.write(i, ..) of a contiguous kernel
KernelWrite(t) ==
    /\ th[t].pc = "kernel_write"
    /\ mem' = [mem EXCEPT ![OutBuf(t) + th[t].i] =
                 kernel_row(E, S, th[t].h, th[t].stat, th[t].nan, th[t].regs, th[t].mu)]
    /\ th' = [th EXCEPT ![t] = [@ EXCEPT
           !.writes[th[t].i + 1] = @ + 1,
           !.last[th[t].i + 1] = "final",
           !.regs = <<>>, !.j = 0, !.i = @ + 1,
           !.pc = IF th[t].i + 1 = th[t].m.nrows THEN "done"
                  ELSE IF th[t].stat = "varm" THEN "read_mean"
                  ELSE "kernel_load"]]
    /\ UNCHANGED <<pc, op, nan, E, S, offset, mat, mean, out, tr>>

\* the strided loops: let elem = mat.read_unchecked(i, j), and
\* valid_count[i] += (!is_nan) as usize under Ignore
ReadElem(t) ==
    /\ th[t].pc = "read_elem"
    /\ LET elem == mem[addr(th[t].m, th[t].i, th[t].j)]
       IN /\ th' = [th EXCEPT ![t] = [@ EXCEPT
                 !.elem = elem,
                 !.pc = IF th[t].stat = "varm" THEN "read_mean" ELSE "read_acc"]]
          /\ mem' = IF th[t].nan = "Ignore"
                    THEN [mem EXCEPT ![CountBuf(t) + th[t].i] =
                            usize_add(@, IF faer_is_nan(Kind(E), elem) THEN 0 ELSE 1)]
                    ELSE mem
    /\ UNCHANGED <<pc, op, nan, E, S, offset, mat, mean, out, tr>>

\* let acc = out.read_unchecked(i)
ReadAcc(t) ==
    /\ th[t].pc = "read_acc"
    /\ th' = [th EXCEPT ![t] = [@ EXCEPT
           !.acc = mem[OutBuf(t) + th[t].i],
           !.pc = "write_acc"]]
    /\ UNCHANGED <<pc, op, nan, E, S, offset, mat, mean, out, mem, tr>>

\* out.write_unchecked(i, ..), then the next i, or the next j
WriteAcc(t) ==
    /\ th[t].pc = "write_acc"
    /\ mem' = [mem EXCEPT ![OutBuf(t) + th[t].i] =
                 acc_value(E, th[t].stat, th[t].nan, th[t].acc, th[t].elem, th[t].mu)]
    /\ th' = [th EXCEPT ![t] = [@ EXCEPT
           !.writes[th[t].i + 1] = @ + 1,
           !.last[th[t].i + 1] = "partial",
           !.i = IF th[t].i + 1 < th[t].m.nrows THEN th[t].i + 1 ELSE 0,
           !.j = IF th[t].i + 1 < th[t].m.nrows THEN th[t].j ELSE th[t].j + 1,
           !.pc = IF th[t].i + 1 < th[t].m.nrows \/ th[t].j + 1 < th[t].m.ncols
                  THEN "read_elem" ELSE "final_read"]]
    /\ UNCHANGED <<pc, op, nan, E, S, offset, mat, mean, out, tr>>

\* the last loop: valid_count[i] under Ignore, and out.read(i) where the
\* value to store needs it
FinalRead(t) ==
    /\ th[t].pc = "final_read"
    /\ LET cnt == IF th[t].nan = "Ignore" THEN mem[CountBuf(t) + th[t].i] ELSE th[t].cnt
       IN th' = [th EXCEPT ![t] = [@ EXCEPT
              !.cnt = cnt,
              !.acc = IF th[t].nan = "Ignore" /\ th[t].stat = "varm" /\ cnt < 2
                      THEN th[t].acc ELSE mem[OutBuf(t) + th[t].i],
              !.pc = "final_write"]]
    /\ UNCHANGED <<pc, op, nan, E, S, offset, mat, mean, out, mem, tr>>

\* the last loop: out.write(i, ..)
FinalWrite(t) ==
    /\ th[t].pc = "final_write"
    /\ mem' = [mem EXCEPT ![OutBuf(t) + th[t].i] =
                 final_value(E, th[t].stat, th[t].nan, th[t].m.ncols, th[t].cnt,
                             th[t].acc)]
    /\ th' = [th EXCEPT ![t] = [@ EXCEPT
           !.writes[th[t].i + 1] = @ + 1,
           !.last[th[t].i + 1] = "final",
           !.i = @ + 1,
           !.pc = IF th[t].i + 1 < th[t].m.nrows THEN "final_read" ELSE "done"]]
    /\ UNCHANGED <<pc, op, nan, E, S, offset, mat, mean, out, tr>>

StepNext ==
    \E t \in Threads :
        \/ Start(t) \/ Fill(t) \/ ReadMean(t)
        \/ KernelLoad(t) \/ KernelWrite(t)
        \/ ReadElem(t) \/ ReadAcc(t) \/ WriteAcc(t)
        \/ FinalRead(t) \/ FinalWrite(t)

StepSpec == StepInit /\ [][StepNext]_vars

---------------------------------------------------------------------------
(* C11 - C20.                                                              *)


\* C11 as stated: for the real matrix [[1.2, 3.4], [1.7, -3.8]], col_mean
\* gives [1.45, -0.2], and col_varm about [1.45, -0.2] gives [0.125, 25.92].
C11_Example_AsStated ==
    (Done /\ Kind(E) = "real") =>
        /\ op = "col_mean" => out.data = <<Norm(145, 100), Norm(-2, 10)>>
        /\ (op = "col_varm" /\ mean.data = <<Norm(145, 100), Norm(-2, 10)>>) =>
               out.data = <<Norm(125, 1000), Norm(2592, 100)>>

\* C11, amended: for the real matrix [[1.2, 3.4], [1.7, -3.8]], row_mean
\* gives [1.45, -0.2] and row_varm about those means gives [0.125, 25.92];
\* col_mean gives the means of the rows, [2.3, -1.05], col_varm about those
\* means gives [2.42, 15.125], and col_varm about [1.45, -0.2] gives
\* [3.865, 16.57].
C11_Example ==
    (Done /\ Kind(E) = "real") =>
        /\ op = "row_mean" => out.data = <<Norm(145, 100), Norm(-2, 10)>>
        /\ (op = "row_varm" /\ mean.data = <<Norm(145, 100), Norm(-2, 10)>>) =>
               out.data = <<Norm(125, 1000), Norm(2592, 100)>>
        /\ op = "col_mean" => out.data = <<Norm(23, 10), Norm(-105, 100)>>
        /\ (op = "col_varm" /\ mean.data = <<Norm(23, 10), Norm(-105, 100)>>) =>
               out.data = <<Norm(242, 100), Norm(15125, 1000)>>
        /\ (op = "col_varm" /\ mean.data = <<Norm(145, 100), Norm(-2, 10)>>) =>
               out.data = <<Norm(3865, 1000), Norm(1657, 100)>>

\* C11 happens: row_varm of the real matrix about the means row_mean wrote,
\* [1.45, -0.2], has written [0.125, 25.92]
C11_Witness ==
    /\ Done /\ Kind(E) = "real" /\ op = "row_varm"
    /\ mat.data = ExampleData("real")
    /\ mean.data = <<Norm(145, 100), Norm(-2, 10)>>
    /\ out.data = <<Norm(125, 1000), Norm(2592, 100)>>

\* C12: under Ignore, an entry of a complex type is left out of the sum and
\* of the count exactly when its real or its imaginary component is NaN, and
\* an entry with two non-NaN components is counted once: the mean is the sum
\* of the entries without a NaN component divided by their number k (NaN at
\* k = 0), the variance their sum of squared deviations divided by k - 1
\* (0 at k = 1, NaN at k = 0); in the generic complex kernel, the packed
\* kernels and the strided fallback.
C12_ComplexEntryExcludedWhole ==
    (Done /\ nan = "Ignore" /\ IsCplx(Kind(E))) =>
        \A i \in 1..Len(CallLines) :
            LET kept == NonNan(Kind(E), CallLines[i])
            IN Len(CallLines[i]) >= 1 =>
                /\ MeanCall => out.data[i] = MeanOf(Kind(E), kept)
                /\ (VarmCall /\ Len(kept) = 0) => is_nan(out.data[i])
                /\ (VarmCall /\ Len(kept) = 1) => out.data[i] = F(0)
                /\ (VarmCall /\ Len(kept) >= 2) =>
                       out.data[i] = VarmOf(Kind(E), kept, mean.data[i])

\* what the call of the state writes for the element type Et and the matrix
\* view m
RunCall(Et, m) ==
    CASE op = "col_mean" -> col_mean(Et, S, offset, FreshOut, m, nan)
      [] op = "row_mean" -> row_mean(Et, S, offset, FreshOut, m, nan)
      [] op = "col_varm" -> col_varm(Et, S, offset, FreshOut, m, mean, nan)
      [] op = "row_varm" -> row_varm(Et, S, offset, FreshOut, m, mean, nan)

\* the matrix of the state, its entries laid out with stride cs along the
\* reduced dimension
WithStride(cs) ==
    IF op \in {"col_mean", "col_varm"}
    THEN [mat EXCEPT !.col_stride = cs, !.row_stride = mat.ncols * Abs(cs)]
    ELSE [mat EXCEPT !.row_stride = cs, !.col_stride = mat.nrows * Abs(cs)]

\* C13: the same entries laid out with stride 1 (contiguous kernel), with a
\* stride other than 1 (strided fallback) or with a negative stride
\* (reversed first) give the same mean and the same variance at every output
\* position, under both policies.
C13_LayoutsAgree ==
    Done => \A cs \in Strides : out = RunCall(E, WithStride(cs))

\* Complex<f32> for c32, Complex<f64> for c64
GenericComplex(Et) == IF Et = "c32" THEN "Complex<f32>" ELSE "Complex<f64>"

\* C14: under Ignore, the packed c32 and c64 kernels (mean and variance)
\* give the result the generic Complex<Real> kernel gives on the same
\* entries, for every line and every backend, the scalar backend included.
C14_PackedAgreesWithGeneric ==
    (Done /\ nan = "Ignore" /\ Packed(E)) => out = RunCall(GenericComplex(E), mat)

\* the lengths of out and of the mean vector of the call match the matrix
LengthsMatch ==
    CASE op = "col_mean" -> out.nrows = mat.nrows
      [] op = "row_mean" -> out.ncols = mat.ncols
      [] op = "col_varm" -> out.nrows = mat.nrows /\ mean.nrows = mat.nrows
      [] op = "row_varm" -> out.ncols = mat.ncols /\ mean.ncols = mat.ncols
      [] OTHER -> TRUE

\* every position of out holds what it held before the call
Unwritten ==
    out.data = splat(Stale(IF MeanCall THEN Kind(E) ELSE "real"), Len(out.data))

\* C15: each of col_mean, row_mean, col_varm and row_varm panics when the
\* length of out differs from the matching matrix dimension or, for the
\* variances, when the length of the mean vector differs from it, and no
\* position of out has been written when it does.
C15_MismatchPanicsBeforeWriting ==
    (pc # "idle" /\ ~LengthsMatch) => (pc = "panic" /\ Unwritten)

\* C15 happens: col_varm of a supported type has panicked on a mean vector
\* shorter than the matrix has rows, out matching, and out is as it was
C15_Witness ==
    /\ pc = "panic" /\ op = "col_varm" /\ E \in Types
    /\ out.nrows = mat.nrows /\ mat.nrows = 2 /\ mean.nrows = 1
    /\ Unwritten

\* length and stride of the matrix along the reduced dimension
ReducedLen == IF op \in {"col_mean", "col_varm"} THEN mat.ncols ELSE mat.nrows
ReducedStride ==
    IF op \in {"col_mean", "col_varm"} THEN mat.col_stride ELSE mat.row_stride

\* C18 as stated: a call on an element type that is none of real,
\* Complex<Real>, c32, c64 panics, whatever the policy, the layout and the
\* shape.
C18_UnsupportedTypePanics_AsStated ==
    (pc # "idle" /\ E = OtherField) => pc = "panic"

\* C18, amended: a call on an element type that is none of real,
\* Complex<Real>, c32, c64, with matching lengths, panics exactly when the
\* policy is Ignore, the reduced dimension is not empty and its stride is 1
\* or -1 (the contiguous path); every other call returns, and a mean call
\* over a non-empty reduced dimension returns the means.
C18_UnsupportedTypePanics ==
    (pc # "idle" /\ E = OtherField /\ LengthsMatch) =>
        /\ pc = "panic" <=>
              (nan = "Ignore" /\ ReducedLen # 0 /\ ReducedStride \in {1, -1})
        /\ pc = "panic" => Unwritten
        /\ (pc = "done" /\ MeanCall /\ ReducedLen >= 1) =>
              \A i \in 1..Len(CallLines) :
                  out.data[i] = MeanOf(Kind(E), CallLines[i])

\* C18 happens: row_varm under Ignore on the other element type, with
\* matching lengths and a contiguous non-empty reduced dimension, has
\* panicked
C18_Witness ==
    /\ pc = "panic" /\ E = OtherField /\ op = "row_varm" /\ nan = "Ignore"
    /\ LengthsMatch /\ Len(out.data) >= 1
    /\ ReducedLen >= 1 /\ ReducedStride = 1

\* out of call t, as memory holds it
OutOf(t) == [i \in 1..th[t].m.nrows |-> mem[OutBuf(t) + i - 1]]

\* what the entry point of call t writes when it runs alone
Alone(t) ==
    CASE th[t].op = "col_mean" ->
            col_mean(E, S, th[t].h,
                     ColView(splat(Stale(OutKind(E, "mean")), th[t].m.nrows)),
                     th[t].arg.mat, th[t].nan).data
      [] th[t].op = "row_mean" ->
            row_mean(E, S, th[t].h,
                     RowView(splat(Stale(OutKind(E, "mean")), th[t].m.nrows)),
                     th[t].arg.mat, th[t].nan).data
      [] th[t].op = "col_varm" ->
            col_varm(E, S, th[t].h, ColView(splat(Stale("real"), th[t].m.nrows)),
                     th[t].arg.mat, ColView(th[t].arg.mean), th[t].nan).data
      [] th[t].op = "row_varm" ->
            row_varm(E, S, th[t].h, RowView(splat(Stale("real"), th[t].m.nrows)),
                     th[t].arg.mat, RowView(th[t].arg.mean), th[t].nan).data

\* C16: when an entry point has returned, every position of out has been
\* written, the last store to it was a final value and not a partial sum,
\* and it holds the statistic of the call, on every path (zero-length
\* return, length-1 variance return, contiguous kernel, strided fallback).
C16_ReturnedOutIsFinal ==
    \A t \in Threads :
        th[t].pc = "done" =>
            \A i \in 1..th[t].m.nrows :
                /\ th[t].writes[i] >= 1
                /\ th[t].last[i] = "final"
                /\ OutOf(t)[i] = Alone(t)[i]

\* C16 happens: a call has returned from the strided fallback with two
\* positions that were written as partial sums before, and one has returned
\* from the length-1 variance return
C16_Witness ==
    /\ th[1].pc = "done" /\ th[1].path = "strided" /\ th[1].m.nrows = 2
    /\ th[1].writes[1] > 1 /\ th[1].last = <<"final", "final">>
    /\ OutOf(1) = Alone(1)
    /\ th[2].pc = "done" /\ th[2].path = "fill_zero" /\ th[2].m.nrows = 2

\* C17 as stated: a call writes each position of out exactly once, on every
\* path.
C17_WritesOnce_AsStated ==
    \A t \in Threads :
        th[t].pc = "done" => \A i \in 1..th[t].m.nrows : th[t].writes[i] = 1

\* C17, amended: a call that returns early (reduced length 0, Propagate
\* variance at reduced length 1) or runs a contiguous kernel (stride 1 or
\* -1 along the reduced dimension) writes each position of out exactly
\* once; a call on the strided fallback writes each position n + 2 times
\* for a reduced length n: the zero, one partial sum per entry, the final
\* value.
C17_WritesOnce ==
    \A t \in Threads :
        th[t].pc = "done" =>
            \A i \in 1..th[t].m.nrows :
                th[t].writes[i] =
                    (IF \/ th[t].m.ncols = 0
                        \/ (th[t].op \in {"col_varm", "row_varm"}
                            /\ th[t].nan = "Propagate" /\ th[t].m.ncols = 1)
                        \/ (IF th[t].op \in {"col_mean", "col_varm"}
                            THEN th[t].arg.mat.col_stride
                            ELSE th[t].arg.mat.row_stride) \in {1, -1}
                     THEN 1
                     ELSE th[t].m.ncols + 2)

\* C17 happens: one call has returned from a contiguous kernel with each of
\* two positions written once, the other from the strided fallback over a
\* reduced length of 2 with each of two positions written four times
C17_Witness ==
    /\ th[1].pc = "done" /\ th[1].path = "kernel" /\ th[1].writes = <<1, 1>>
    /\ th[2].pc = "done" /\ th[2].path = "strided" /\ th[2].writes = <<4, 4>>

\* the reduced lines of call t
LinesOf(t) ==
    IF th[t].op \in {"col_mean", "col_varm"} THEN th[t].arg.mat.data
    ELSE transpose(th[t].arg.mat).data

\* the variance of line about mu: NaN without a counted entry, 0 with one,
\* the sum of squared deviations from mu over the counted entries divided by
\* their number less one otherwise
VarmAbout(k, nanp, line, mu) ==
    IF nanp = "Propagate" THEN VarmOf(k, line, mu)
    ELSE IF Len(NonNan(k, line)) = 0 THEN NaN
    ELSE IF Len(NonNan(k, line)) = 1 THEN F(0)
    ELSE VarmOf(k, NonNan(k, line), mu)

HasInf(k, x) == IF IsCplx(k) THEN IsInf(x.re) \/ IsInf(x.im) ELSE IsInf(x)

\* C19: col_varm and row_varm never recompute the mean and change nothing
\* but out: the mean a variance call holds for its position i is the entry i
\* of the mean vector it was given; what it writes on the strided fallback
\* and in the contiguous kernels is the variance about that entry, whatever
\* the entry is (outside the packed kernels on the scalar backend, whose
\* count is wrong, and the Propagate kernel with an infinite mean, whose
\* padding adds NaN); and the entries of every matrix and of every mean
\* vector are, in every state, what they were before the calls.
C19_SuppliedMeanAndFrame ==
    \A t \in Threads :
        /\ \A a \in MatBuf(t)..(MatBuf(t) + 5) : mem[a] = StepMem(E)[a]
        /\ (th[t].stat = "varm"
            /\ th[t].pc \in {"kernel_load", "kernel_write", "read_acc", "write_acc"}) =>
               th[t].mu = th[t].arg.mean[th[t].i + 1]
        /\ (th[t].stat = "varm" /\ th[t].pc = "done"
            /\ th[t].path \in {"kernel", "strided"}) =>
               \A i \in 1..th[t].m.nrows :
                   \/ OutOf(t)[i] = VarmAbout(Kind(E), th[t].nan, LinesOf(t)[i],
                                              th[t].arg.mean[i])
                   \/ (th[t].path = "kernel" /\ th[t].nan = "Ignore"
                       /\ Packed(E) /\ S = "Scalar")
                   \/ (th[t].path = "kernel" /\ th[t].nan = "Propagate"
                       /\ HasInf(Kind(E), th[t].arg.mean[i]))

\* C19 happens: row_varm under Ignore has returned from the strided
\* fallback; position 1 holds the variance of its two entries about the
\* supplied mean, which is not their mean, and not the variance about their
\* mean
C19_Witness ==
    /\ th[1].pc = "done" /\ th[1].op = "row_varm" /\ th[1].nan = "Ignore"
    /\ th[1].path = "strided"
    /\ NoNan(Kind(E), LinesOf(1)[1]) /\ Len(LinesOf(1)[1]) = 2
    /\ th[1].arg.mean[1] # MeanOf(Kind(E), LinesOf(1)[1])
    /\ OutOf(1)[1] = VarmOf(Kind(E), LinesOf(1)[1], th[1].arg.mean[1])
    /\ OutOf(1)[1] # VarmOf(Kind(E), LinesOf(1)[1], MeanOf(Kind(E), LinesOf(1)[1]))

\* C20: two calls on their own matrices and outputs, their memory accesses
\* interleaved in any order, each write what they write alone: when both
\* have returned, out of each holds what its entry point writes on its own,
\* and while a call has not started its buffers are as they were, whatever
\* the other call has done.
C20_ConcurrentCallsIndependent ==
    /\ (\A t \in Threads : th[t].pc = "done") =>
           \A t \in Threads : OutOf(t) = Alone(t)
    /\ \A t \in Threads :
           th[t].pc = "idle" =>
               \A a \in MatBuf(t)..(MatBuf(t) + 9) : mem[a] = StepMem(E)[a]

\* C20 happens: two calls on the strided fallback under Ignore, each with
\* two positions and its own counters, have both returned with what they
\* write alone
C20_Witness ==
    /\ \A t \in Threads :
          /\ th[t].pc = "done" /\ th[t].path = "strided" /\ th[t].nan = "Ignore"
          /\ th[t].m.nrows = 2
          /\ OutOf(t) = Alone(t)
    /\ th[1].op = "row_mean" /\ th[2].op = "row_varm"

---------------------------------------------------------------------------
(* RowSpec: one call on a matrix of one contiguous non-empty row (an empty  *)
(* row never reaches a kernel), long enough to fill a chunk of the lane    *)
(* counters.  Under Ignore the kernel's row traversal takes one register   *)
(* (head, group of four, single body register, tail) per step; under       *)
(* Propagate the call is one step.                                         *)

\* longest row of RowSpec
MaxRow == 20

\* where the NaN entries of the row sit
RowPatterns == {"valid", "nan_first", "nan_even", "nan_all"}

\* entry j of the row
RowElem(k, pat, j) ==
    IF pat = "nan_all" \/ (pat = "nan_first" /\ j = 1) \/ (pat = "nan_even" /\ j % 2 = 0)
    THEN NanElem(k, 1, j)
    ELSE IF k = "real" THEN F(j) ELSE Cx(F(j), F(1))

RowData(k, pat, n) == [j \in 1..n |-> RowElem(k, pat, j)]

\* the kernel of the call and the mean of its row
RowKernel ==
    [Et |-> E, Sb |-> S, stat |-> StatOf(op),
     m |-> IF op = "col_varm" THEN mean.data[1] ELSE faer_zero(Kind(E))]

\* simd.as_aligned_simd(row, offset) of the row of the call
RowParts == as_aligned_simd(mat.data[1], Lanes(S), offset, faer_zero(Kind(E)))

\* body.as_arrays::<4>(): body4.len()
Body4Len == Len(RowParts.body) \div 4

\* the row entries a register of the traversal covers
HeadEntries == 1..Min(offset, mat.ncols)
BodyEntries(b) ==
    (Min(offset, mat.ncols) + (b - 1) * Lanes(S) + 1)..(Min(offset, mat.ncols) + b * Lanes(S))
TailEntries ==
    (mat.ncols - ((mat.ncols - Min(offset, mat.ncols)) % Lanes(S)) + 1)..mat.ncols

\* one more visit of the entries of J
Visit(visits, J) == [j \in DOMAIN visits |-> IF j \in J THEN visits[j] + 1 ELSE visits[j]]

RowInit ==
    /\ pc = "row"
    /\ op \in {"col_mean", "col_varm"}
    /\ nan \in NanHandling
    /\ E \in Types
    /\ S \in Backends
    /\ offset \in 0..(Lanes(S) - 1)
    /\ \E n \in 1..MaxRow, pat \in RowPatterns :
          mat = MatView(<<RowData(Kind(E), pat, n)>>, 1, n, n, 1)
    /\ \E s \in 1..3 :
          mean = ColView(IF op = "col_varm" THEN <<MeanVals(Kind(E))[s]>> ELSE <<>>)
    /\ out = ColView(<<Stale(OutKind(E, StatOf(op)))>>)
    /\ mem = <<>>
    /\ th = <<>>
    /\ tr = <<>>

\* the row under Propagate: the whole call
PropagateRow ==
    /\ pc = "row" /\ nan = "Propagate"
    /\ out' = IF op = "col_mean" THEN col_mean(E, S, offset, out, mat, nan)
              ELSE col_varm(E, S, offset, out, mat, mean, nan)
    /\ pc' = "done"
    /\ UNCHANGED <<op, nan, E, S, offset, mat, mean, mem, th, tr>>

\* the row under Ignore: the accumulators are set up and the head is
\* processed, its counter reduced into the total and reset
HeadStep ==
    /\ pc = "row" /\ nan = "Ignore"
    /\ tr' = [st |-> after_head(RowKernel,
                        process(E, S, StatOf(op),
                                splat(faer_zero(AccKind(E, S, StatOf(op))), AccLanes(E, S)),
                                RowKernel.m, splat(0, AccLanes(E, S)), RowParts.head)),
              sum |-> "none", start |-> 0, len |-> 0, g |-> 0, b |-> 4 * Body4Len + 1,
              visits |-> Visit([j \in 1..mat.ncols |-> 0], HeadEntries),
              chunks |-> [g \in 1..Body4Len |-> 0]]
    /\ pc' = "while"
    /\ UNCHANGED <<op, nan, E, S, offset, mat, mean, out, mem, th>>

\* while start < body4.len() { let len = min(body4.len() - start, chunk_size);
ChunkBegin ==
    /\ pc = "while" /\ tr.start < Body4Len
    /\ tr' = [tr EXCEPT !.len = Min(Body4Len - tr.start, chunk_size(E)),
                        !.g = tr.start]
    /\ pc' = "for"
    /\ UNCHANGED <<op, nan, E, S, offset, mat, mean, out, mem, th>>

\* for [x0, x1, x2, x3] in body4[start..start + len]: one group
Group ==
    /\ pc = "for" /\ tr.g < tr.start + tr.len
    /\ tr' = [tr EXCEPT
                !.st = group_step(RowKernel, tr.st,
                                  RowParts.body[4 * tr.g + 1], RowParts.body[4 * tr.g + 2],
                                  RowParts.body[4 * tr.g + 3], RowParts.body[4 * tr.g + 4]),
                !.g = tr.g + 1,
                !.visits = Visit(tr.visits,
                                 UNION {BodyEntries(4 * tr.g + r) : r \in 1..4}),
                !.chunks = [tr.chunks EXCEPT ![tr.g + 1] = @ + 1]]
    /\ UNCHANGED <<pc, op, nan, E, S, offset, mat, mean, out, mem, th>>

\* the end of the chunk: the counters are added up, reduced into the total
\* and reset; start += len
Flush ==
    /\ pc = "for" /\ ~(tr.g < tr.start + tr.len)
    /\ tr' = [tr EXCEPT !.st = flush(RowKernel, tr.st),
                        !.start = tr.start + tr.len]
    /\ pc' = "while"
    /\ UNCHANGED <<op, nan, E, S, offset, mat, mean, out, mem, th>>

\* the chunk loop is left
ChunkExit ==
    /\ pc = "while" /\ ~(tr.start < Body4Len)
    /\ pc' = "body1"
    /\ UNCHANGED <<op, nan, E, S, offset, mat, mean, out, mem, th, tr>>

\* for x0 in body1: one register
Body1 ==
    /\ pc = "body1" /\ tr.b <= Len(RowParts.body)
    /\ tr' = [tr EXCEPT
                !.st = with_sum0(tr.st,
                                 process(E, S, StatOf(op), tr.st.sum0, RowKernel.m,
                                         tr.st.non_nan_count0, RowParts.body[tr.b])),
                !.b = tr.b + 1,
                !.visits = Visit(tr.visits, BodyEntries(tr.b))]
    /\ UNCHANGED <<pc, op, nan, E, S, offset, mat, mean, out, mem, th>>

\* process(.., tail) on the traversal state
tail_processed ==
    process(E, S, StatOf(op), tr.st.sum0, RowKernel.m, tr.st.non_nan_count0, RowParts.tail)

\* the tail, the last reduction of the counter, the sum of the row and the
\* write of out[i]
TailStep ==
    /\ pc = "body1" /\ ~(tr.b <= Len(RowParts.body))
    /\ tr' = [tr EXCEPT
                !.st = [with_sum0(tr.st, tail_processed) EXCEPT
                          !.non_nan_count_total =
                              after_tail(RowKernel, offset, tr.st,
                                         tail_processed).non_nan_count_total],
                !.sum = after_tail(RowKernel, offset, tr.st, tail_processed).sum,
                !.visits = Visit(tr.visits, TailEntries)]
    /\ out' = ColView(<<IF op = "col_mean"
                        THEN mean_finish(E, after_tail(RowKernel, offset, tr.st,
                                                       tail_processed))
                        ELSE varm_finish(E, after_tail(RowKernel, offset, tr.st,
                                                       tail_processed))>>)
    /\ pc' = "done"
    /\ UNCHANGED <<op, nan, E, S, offset, mat, mean, mem, th>>

RowNext ==
    PropagateRow \/ HeadStep \/ ChunkBegin \/ Group \/ Flush \/ ChunkExit \/ Body1 \/ TailStep

RowSpec == RowInit /\ [][RowNext]_vars

\* ChunkSpec: the traversal of the rows of valid entries by the mean
\* kernels under Ignore; the code between two steps is straight line code,
\* so a traversal that can take a step takes it
ChunkInit == RowInit /\ nan = "Ignore" /\ op = "col_mean" /\ NoNan(Kind(E), mat.data[1])

ChunkNext == HeadStep \/ ChunkBegin \/ Group \/ Flush \/ ChunkExit \/ Body1 \/ TailStep

\* the steps of the chunk loop
ChunkLoop == ChunkBegin \/ Group \/ Flush \/ ChunkExit

ChunkSpec == ChunkInit /\ [][ChunkNext]_vars /\ WF_vars(ChunkLoop)

---------------------------------------------------------------------------
(* Claims on the row traversal of the contiguous kernels.                  *)

\* the counter lane is narrower than usize
NarrowCounter(Et) == IndexBits(Et) < UsizeBits

\* the traversal stands at the end of a chunk, before the counters are
\* added up
AtFlush == nan = "Ignore" /\ pc = "for" /\ ~(tr.g < tr.start + tr.len)

\* count0 + count1 + count2 + count3 of lane l, as a number
LaneSum(st, l) ==
    st.non_nan_count0[l] + st.non_nan_count1[l] + st.non_nan_count2[l]
        + st.non_nan_count3[l]

\* C21: with a counter lane of w bits narrower than usize, the sum
\* count0 + count1 + count2 + count3 formed per lane at a chunk flush is at
\* most 2^w - 1, a full chunk of valid entries included.
C21_LaneSumFitsCounter ==
    (AtFlush /\ NarrowCounter(E)) =>
        \A l \in 1..AccLanes(E, S) : LaneSum(tr.st, l) <= Pow2(IndexBits(E)) - 1

\* the traversal has started
InTraversal == nan = "Ignore" /\ pc \in {"while", "for", "body1", "done"}

\* the entry is valid: no component is NaN
ValidEntry(j) == ~faer_is_nan(Kind(E), mat.data[1][j])

RECURSIVE SumOver(_, _)
SumOver(f, J) ==
    IF J = {} THEN 0
    ELSE LET j == CHOOSE x \in J : TRUE IN f[j] + SumOver(f, J \ {j})

\* the valid entries consumed so far, each as often as it was consumed
ValidConsumed == SumOver(tr.visits, {j \in 1..mat.ncols : ValidEntry(j)})

\* the valid entries of the row
ValidInRow == Cardinality({j \in 1..mat.ncols : ValidEntry(j)})

\* the four live counters, summed over the lanes
LiveCount(st) ==
    SumOver([l \in 1..Len(st.non_nan_count0) |-> LaneSum(st, l)],
            1..Len(st.non_nan_count0))

\* C22: in the real and generic complex ignore kernels non_nan_count_total
\* plus the live counters of all lanes is the number of valid entries
\* consumed so far at every point of the traversal; at the end of the row
\* every entry was consumed exactly once and non_nan_count_total is the
\* number of valid entries of the row.
C22_CountIsValidConsumed ==
    (InTraversal /\ Kind(E) \in {"real", "cplx"}) =>
        IF pc = "done"
        THEN /\ \A j \in 1..mat.ncols : tr.visits[j] = 1
             /\ tr.st.non_nan_count_total = ValidInRow
        ELSE tr.st.non_nan_count_total + LiveCount(tr.st) = ValidConsumed

\* C23: in the packed c32 / c64 ignore kernels the raw non_nan_count_total
\* at the end of the row is twice the number of valid complex entries
\* (nothing for an entry with a NaN component, nothing for a padding lane),
\* in the scalar and in the vector branch of process.
C23_PackedCountIsTwiceValid ==
    (InTraversal /\ pc = "done" /\ Packed(E)) =>
        tr.st.non_nan_count_total = 2 * ValidInRow

---------------------------------------------------------------------------
(* PathSpec: the four entry points up to the choice of the path, on views  *)
(* of every stride (negative, zero, one, larger).                          *)

\* largest magnitude of a stride of PathSpec
MaxStride == 3

PathViews ==
    [ptr : {0}, nrows : 0..2, ncols : 0..2,
     rs : (-MaxStride)..MaxStride, cs : (-MaxStride)..MaxStride]

\* mat.row(i).try_as_slice() is Some: the entries of the row are adjacent
try_as_slice(v) == v.cs = 1

PathInit ==
    /\ pc = "idle"
    /\ op \in Ops
    /\ nan \in NanHandling
    /\ E \in StepTypes
    /\ S \in Backends
    /\ offset = 0
    /\ mat = MatView(<<>>, 0, 0, 0, 1)
    /\ mean = ColView(<<>>)
    /\ out = ColView(<<>>)
    /\ mem = <<>>
    /\ th = <<>>
    /\ \E v \in PathViews : tr = [m0 |-> v, m |-> v, path |-> "none"]

\* a row variant transposes the view, a negative column stride is reversed,
\* the path is chosen
SelectPath ==
    /\ pc = "idle"
    /\ LET m1 == IF op \in {"row_mean", "row_varm"} THEN view_transpose(tr.m0) ELSE tr.m0
       IN tr' = [m0 |-> tr.m0,
                 m |-> IF m1.cs >= 0 THEN m1 ELSE view_reverse_cols(m1),
                 path |-> select_path(StatOf(op), nan, m1)]
    /\ pc' = "selected"
    /\ UNCHANGED <<op, nan, E, S, offset, mat, mean, out, mem, th>>

PathNext == SelectPath

PathSpec == PathInit /\ [][PathNext]_vars

\* the reduced dimension is empty, or it is the single entry of a Propagate
\* variance: the call returns before a path is chosen
EarlyReturn(single) ==
    \/ tr.m.ncols = 0
    \/ single /\ StatOf(op) = "varm" /\ nan = "Propagate" /\ tr.m.ncols = 1

PathChoice ==
    /\ tr.m.cs >= 0
    /\ tr.path = "kernel" <=> tr.m.cs = 1
    /\ tr.path = "strided" <=> tr.m.cs # 1
    /\ tr.path = "kernel" => try_as_slice(tr.m)

\* C24 as the spec states it: for every non-empty reduced dimension the
\* column stride is made non-negative by reversal, the contiguous kernel
\* runs exactly when it is then 1 and the strided fallback otherwise.
C24_PathByStride_AsStated ==
    (pc = "selected" /\ ~EarlyReturn(FALSE)) => PathChoice

\* C24: the same once a path is chosen at all, which excludes the Propagate
\* variance of a single entry (it is filled with zero before the stride is
\* looked at); the kernel is never entered with a stride other than 1, so
\* try_as_slice().unwrap() does not fail.
C24_PathByStride ==
    (pc = "selected" /\ ~EarlyReturn(TRUE)) => PathChoice

\* a view of column stride -1 is reversed and takes the kernel
C24_Witness ==
    /\ pc = "selected" /\ op = "col_mean"
    /\ tr.m0.cs = -1 /\ tr.m0.ncols = 2 /\ tr.m.cs = 1 /\ tr.m.ptr = -1
    /\ tr.path = "kernel"

\* the sum of the entries lo..hi of s, halving the range
RECURSIVE SumRange(_, _, _, _)
SumRange(k, s, lo, hi) ==
    IF lo > hi THEN faer_zero(k)
    ELSE IF lo = hi THEN s[lo]
    ELSE faer_add(k, SumRange(k, s, lo, (lo + hi) \div 2),
                  SumRange(k, s, ((lo + hi) \div 2) + 1, hi))

\* |x - mu|^2 for the entries x of s
SqDevs(k, s, mu) == [j \in 1..Len(s) |-> faer_abs2(k, faer_sub(k, s[j], mu))]

\* the entries of the row that take part in the result
Counted == IF nan = "Ignore" THEN NonNan(Kind(E), mat.data[1]) ELSE mat.data[1]

\* the result of the row from its own entries alone: no lane outside the
\* row takes part
PlainResult ==
    IF op = "col_mean"
    THEN faer_scale_real(Kind(E), SumRange(Kind(E), Counted, 1, Len(Counted)),
                         f_inv(F(Len(Counted))))
    ELSE IF Len(Counted) = 0 THEN NaN
    ELSE IF Len(Counted) = 1 THEN F(0)
    ELSE f_mul(SumRange("real", SqDevs(Kind(E), Counted, mean.data[1]), 1, Len(Counted)),
               f_inv(F(Len(Counted) - 1)))

\* the row fills a chunk of a narrow counter (the case of C21)
FillsChunk == nan = "Ignore" /\ NarrowCounter(E) /\ Body4Len >= chunk_size(E)

\* C25: the lanes of the head and of the tail that lie outside the row do
\* not change the result of the row: it is the result of the entries of
\* the row alone, under Ignore (padding read as NaN), for the Propagate
\* mean (padding read as zero) and for the Propagate variance (padding read
\* as the mean), for every supplied mean.
C25_PaddingLeavesResult ==
    (pc = "done" /\ ~FillsChunk) => out.data[1] = PlainResult

\* the plain sum over the entries of the row that take part: of the entries
\* for a mean, of their squared deviations for a variance
PlainSum ==
    IF op = "col_mean" THEN SumRange(Kind(E), Counted, 1, Len(Counted))
    ELSE SumRange("real", SqDevs(Kind(E), Counted, mean.data[1]), 1, Len(Counted))

\* the supplied mean is finite (a mean kernel takes none)
FiniteMean ==
    op = "col_varm" => mean.data[1] = MeanVals(Kind(E))[1]

\* C26: without rounding the sum and the valid count of a contiguous kernel
\* do not depend on the lane count or on the alignment offset: for every
\* backend and offset the sum, combined as (sum0 + sum1) + (sum2 + sum3),
\* rotated back and reduced, is the plain sum over the row and the count is
\* the number of valid entries.
C26_SumAndCountOfAnyLayout ==
    (pc = "done" /\ FiniteMean) =>
        IF nan = "Ignore"
        THEN /\ tr.sum = PlainSum
             /\ final_count(E, tr.st.non_nan_count_total) = Len(Counted)
        ELSE out.data[1] = PlainResult

\* C27: the chunked body loop terminates.  chunk_size is at least 1 for
\* every counter width; a chunk holds at least one group and moves start
\* forward; a traversal that reaches the loop leaves it, with
\* start = body4.len() and every group processed in exactly one chunk.
C27_ChunkLoopTerminates ==
    /\ [](\A Et \in Types : chunk_size(Et) >= 1)
    /\ [][(pc = "for" /\ pc' = "while") => (tr.len >= 1 /\ tr'.start = tr.start + tr.len)]_vars
    /\ []((nan = "Ignore" /\ pc \in {"body1", "done"}) =>
             /\ tr.start = Body4Len
             /\ \A g \in 1..Body4Len : tr.chunks[g] = 1)
    /\ (pc = "while") ~> (pc = "body1")

\* a row of five groups has been processed in two chunks, of four groups
\* and of one, and the loop is left
C27_Witness ==
    /\ nan = "Ignore" /\ pc = "body1"
    /\ Body4Len = 5 /\ chunk_size(E) = 4
    /\ tr.start = 5 /\ tr.len = 1
    /\ \A g \in 1..5 : tr.chunks[g] = 1

---------------------------------------------------------------------------
(* Claims on the dispatch, on the rows of a matrix and on from_usize.      *)

\* a call under Ignore has reached the chain of is_same tests: lengths
\* match, the reduced dimension is not empty and contiguous
ReachedDispatch ==
    /\ pc \in {"done", "panic"} /\ nan = "Ignore" /\ LengthsMatch
    /\ ReducedLen # 0 /\ ReducedStride \in {1, -1}

\* C28: on the contiguous Ignore path each supported element type is sent
\* to exactly one kernel, that of the first test that holds in the order
\* c32, c64, real, Complex<Real>: exactly one test holds for it, the kernel
\* is the one of its kind, and a real type reaches the real kernel and no
\* other type does.  The chain panics only for a type that passes no test.
C28_OneKernelPerType ==
    ReachedDispatch =>
        /\ pc = "panic" <=> ignore_kernel(E) = "panic"
        /\ E \in Types =>
              /\ Cardinality({t \in 1..4 : dispatch_tests(E)[t]}) = 1
              /\ ignore_kernel(E) = Kind(E)
              /\ ignore_kernel(E) = "real" <=> E \in {"f32", "f64"}

\* col_varm under Ignore on a contiguous Complex<f32> matrix has run the
\* generic complex kernel
C28_Witness ==
    /\ ReachedDispatch /\ pc = "done" /\ op = "col_varm"
    /\ E = "Complex<f32>" /\ ignore_kernel(E) = "cplx"
    /\ mat.ncols = 2 /\ mat.col_stride = 1

\* a finished column call on a contiguous matrix: a kernel has run
KernelCall ==
    /\ Done /\ op \in {"col_mean", "col_varm"}
    /\ mat.ncols >= 1 /\ mat.col_stride \in {1, -1}
    /\ ~(op = "col_varm" /\ nan = "Propagate" /\ mat.ncols = 1)

\* the rows of the matrix of the call (and their means and positions of
\* out) in the order p
PermutedMat(p) ==
    MatView([i \in 1..Len(p) |-> mat.data[p[i]]], Len(p), mat.ncols,
            mat.row_stride, mat.col_stride)
PermutedMean(p) ==
    ColView(IF op = "col_varm" THEN [i \in 1..Len(p) |-> mean.data[p[i]]] ELSE <<>>)

\* the call of the state on the rows p of its matrix
CallOnRows(p) ==
    IF op = "col_mean"
    THEN col_mean(E, S, offset, ColView(splat(Stale(Kind(E)), Len(p))),
                  PermutedMat(p), nan)
    ELSE col_varm(E, S, offset, ColView(splat(Stale("real"), Len(p))),
                  PermutedMat(p), PermutedMean(p), nan)

\* C29: in the contiguous kernels the result of row i depends on row i (and
\* on mean[i]) alone: it is the result of the call on the matrix of that
\* one row, and a call on the rows in reversed order gives the results in
\* reversed order.
C29_RowsAreIndependent ==
    KernelCall =>
        /\ \A i \in 1..mat.nrows : out.data[i] = CallOnRows(<<i>>).data[1]
        /\ mat.nrows = 2 =>
              CallOnRows(<<2, 1>>).data = <<out.data[2], out.data[1]>>

\* an Ignore mean of two contiguous rows of two entries, the second with a
\* NaN, has been written and the two results differ
C29_Witness ==
    /\ KernelCall /\ op = "col_mean" /\ nan = "Ignore"
    /\ mat.nrows = 2 /\ mat.ncols = 2 /\ mat.col_stride = 1
    /\ NoNan(Kind(E), mat.data[1]) /\ ~NoNan(Kind(E), mat.data[2])
    /\ out.data[1] # out.data[2]
    /\ out.data[2] = CallOnRows(<<2>>).data[1]

---------------------------------------------------------------------------
(* ConvSpec: from_usize with the precision of the floating point types.    *)
(* Elsewhere in the model the floating point values are exact and          *)
(* from_usize(n) is the exact sum of its two parts; here the conversions   *)
(* "as f64", faer_from_f64 and faer_add round to the significand of their  *)
(* type, scaled like the integer widths: the significand of an f64 holds a *)
(* u32 but not a usize, that of an f32 does not hold a u32.                *)

\* bits of the significand of an f64 (53 in the program)
F64Mant == 5
\* bits of the significand of an f32 (24 in the program)
F32Mant == 3

Mant(R) == IF R = "f32" THEN F32Mant ELSE F64Mant

\* the number of bits of x >= 0
RECURSIVE BitLen(_)
BitLen(x) == IF x = 0 THEN 0 ELSE 1 + BitLen(x \div 2)

\* x >= 0 rounded to p significant bits, to nearest, ties to even
round_to(x, p) ==
    IF BitLen(x) <= p THEN x
    ELSE LET unit == Pow2(BitLen(x) - p)
             q == x \div unit
             r == x % unit
         IN IF 2 * r > unit \/ (2 * r = unit /\ q % 2 = 1)
            THEN (q + 1) * unit ELSE q * unit

\* n as u32
as_u32(n) == n % Pow2(U32Bits)

\* from_usize that drops n - (n as u32); C30 must tell it from
\* from_usize_parts
from_usize_low_only(R, n) ==
    [low |-> as_u32(n), high |-> n - as_u32(n),
     value |-> round_to(round_to(as_u32(n), F64Mant), Mant(R))]

\* from_usize::<R>(n): n as u32, n as u64 - (n as u32 as u64), and the sum
\* of the two converted to f64 and then to R
from_usize_parts(R, n) ==
    [low |-> as_u32(n), high |-> n - as_u32(n),
     value |-> round_to(round_to(round_to(as_u32(n), F64Mant), Mant(R))
                            + round_to(round_to(n - as_u32(n), F64Mant), Mant(R)),
                        Mant(R))]

ConvInit ==
    /\ pc = "idle"
    /\ op = "from_usize"
    /\ nan = "Propagate"
    /\ E \in Types
    /\ S \in Backends
    /\ offset = 0
    /\ mat = MatView(<<>>, 0, 0, 0, 1)
    /\ mean = ColView(<<>>)
    /\ out = ColView(<<>>)
    /\ mem = <<>>
    /\ th = <<>>
    /\ \E n \in 0..usize_MAX : tr = [n |-> n, low |-> 0, high |-> 0, value |-> 0]

\* from_usize::<E::Real>(n)
FromUsize ==
    /\ pc = "idle"
    /\ tr' = [n |-> tr.n,
              low |-> from_usize_parts(RealOf(E), tr.n).low,
              high |-> from_usize_parts(RealOf(E), tr.n).high,
              value |-> from_usize_parts(RealOf(E), tr.n).value]
    /\ pc' = "done"
    /\ UNCHANGED <<op, nan, E, S, offset, mat, mean, out, mem, th>>

ConvNext == FromUsize

ConvSpec == ConvInit /\ [][ConvNext]_vars

\* the split of n: low 32 bits and the rest, which add up to n, without
\* underflow
ExactSplit ==
    /\ tr.low = tr.n % Pow2(U32Bits)
    /\ tr.high >= 0 /\ tr.high = tr.n - tr.low
    /\ tr.low + tr.high = tr.n
    /\ from_usize(tr.n) = F(tr.n)

\* C30 as the spec states it: from_usize(n) is n, without loss, for every
\* n of usize.
C30_FromUsizeLossless_AsStated ==
    pc = "done" => (ExactSplit /\ tr.value = tr.n)

\* C30: n is split into n mod 2^32 and n - (n mod 2^32), the subtraction
\* does not underflow and the parts add up to n; the value returned is n
\* when n fits the significand of the type (for f64: whenever n is an f64),
\* and otherwise n rounded, off by at most 3n / 2^(p+1) for a significand
\* of p bits.
C30_FromUsizeLossless ==
    pc = "done" =>
        /\ ExactSplit
        /\ BitLen(tr.n) <= Mant(RealOf(E)) => tr.value = tr.n
        /\ round_to(tr.n, F64Mant) = tr.n => (RealOf(E) = "f64" => tr.value = tr.n)
        /\ 2 * Pow2(Mant(RealOf(E))) * Abs(tr.value - tr.n) <= 3 * tr.n

\* from_usize::<f64> of a number with a low and a high part that fits the
\* significand has returned it
C30_Witness ==
    /\ pc = "done" /\ E = "f64"
    /\ tr.n = 31 /\ tr.low = 15 /\ tr.high = 16 /\ tr.value = 31

===========================================================================
